---------------------------- MODULE Spec2Model ----------------------------
(***************************************************************************)
(* A model of the runtime core of news_extractor_engine: the feed pollers  *)
(* of Engine.__run_feed_sync_cycle, the two ZMQSocketPool instances they   *)
(* borrow from, the FeedReader of each source and the dedup cache of       *)
(* CacheServiceManager.                                                    *)
(*                                                                         *)
(* All pollers are asyncio tasks of one event loop, so a poller runs       *)
(* without interruption from one await to the next.  Every action below is *)
(* one such run: it starts where a task is resumed (or cancelled) and ends *)
(* at the next await (asyncio.sleep, the HTTP request) or at the task's    *)
(* end.                                                                    *)
(*                                                                         *)
(* Times are kept in ticks of 1/(2048*100) second.  refresh_time starts    *)
(* from whole seconds and is multiplied by 1.5 at most ten times before it *)
(* reaches the cap of 300 s, and the jitter is a multiple of 1/100 of it,  *)
(* so every value the code computes is a whole number of ticks.            *)
(***************************************************************************)
EXTENDS Integers, Sequences, FiniteSets, TLC

(***************************************************************************)
(* Bounds of the model.                                                    *)
(***************************************************************************)
\* Sources (one FeedReader and one poller task each) of the pool model and of
\* the feed model.
NumSources == 3
NumFeedSources == 2
\* Distinct first-entry fingerprints the upstream feeds can show.
MaxFp == 2
\* Poll cycles a poller task completes before the model stops following it.
MaxCycles == 1
MaxFeedCycles == 2
\* Sources of the schedule model and the cycles each of its pollers completes.
NumSchedSources == 2
MaxSchedCycles == 2
\* Sources of the error model and the cycles each of its pollers completes.
NumErrSources == 2
MaxErrCycles == 2
\* Capacity of the TTLCache of the model (the program's is 10000).
CacheMaxSize == 2
\* Distinct keys and distinct values the clients of the cache model send.
NumKeys == 3
NumValues == 2
\* Extraction records the dispatcher receives, the most producers a
\* publisher pool is asked for (the program's SpiderTaskQue asks for 3), the
\* most it creates (__MAX_PRODUCERS, the program's is 5), capacity of its
\* message queue (the program's is 10000) and threads of the extraction
\* pool (the program's are 3).
NumJobs == 3
NumProducers == 3
MaxProducers == 2
QueueMaxSize == 1
MaxWorkers == 2
\* Sources of the shutdown model.
NumStopSources == 2
\* Registered sources and records of the record model.
NumRecordSources == 1
NumRecordJobs == 2
NumStopJobs == 2
MaxStopCycles == 1
\* The pollers of the pool model with close_all, and the cycles of the first.
NumCloseSources == 2
MaxCloseCycles == 2
\* max_pool_size, max_concurrent_users and connection_timeout the pools of the
\* pool model are built with (the Engine's are 25, 10 and 10).
PoolMaxSize == 2
PoolMaxUsers == 2
PoolTimeout == 2

(***************************************************************************)
(* Program constants.                                                      *)
(***************************************************************************)
U == 2048 * 100                       \* ticks per second
FeedMinRefreshInterval == 10 * U      \* App.__set_engine_parameters
FeedRefreshBuffer == 5 * U            \* App.__set_engine_parameters
ReaderMinRefreshInterval == 15 * U    \* FeedReader.__init__ default
MinSleep == 10 * U                    \* max(10, ...)
TimeoutBackoffCap == 300 * U
ErrorBackoffCap == 600 * U

Sources == 1..NumSources
FeedSources == 1..NumFeedSources
Fps == 1..MaxFp
Keys == 1..NumKeys
Jobs == 1..NumJobs
Producers == 1..NumProducers
NoSock == 0
NoHash == 0
None == -1

Min(a, b) == IF a < b THEN a ELSE b
Max(a, b) == IF a > b THEN a ELSE b

\* A pop that leaves the element in the list.
RemoveAtKeeps(s, i) == s
\* list.pop(i)
RemoveAt(s, i) == SubSeq(s, 1, i - 1) \o SubSeq(s, i + 1, Len(s))

(***************************************************************************)
(* ZMQSocketPool.  A handle is the number under which the pool created it; *)
(* socket_endpoints[h] is "" when the pool holds no endpoint for h.        *)
(***************************************************************************)
SpiderEndpoint == "tcp://localhost:5555"
CacheEndpoint == "tcp://localhost:5558"
PoolNames == {"spider", "cache"}

NewPool(mps, mcu, ct) ==
    [ max_pool_size |-> mps, max_concurrent_users |-> mcu,
      connection_timeout |-> ct,
      available_sockets |-> << >>, in_use_count |-> 0,
      socket_endpoints |-> << >>,      \* indexed by handle
      semaphore |-> mcu,               \* free permits
      closed |-> {},                   \* handles closed by the pool
      awaiting |-> {} ]                \* handles with a request not answered

\* An acquire that takes no permit.
SemAcquireNoPermit(pl) == pl
\* semaphore.acquire(blocking=False)
SemAcquire(pl) == [pl EXCEPT !.semaphore = @ - 1]
\* A release that gives no permit back.
SemReleaseNot(pl) == pl
\* semaphore.release()
SemRelease(pl) == [pl EXCEPT !.semaphore = @ + 1]

\* Index of the first available socket connected to endpoint, 0 if none.
FirstMatch(pl, endpoint) ==
    LET idx == { i \in 1..Len(pl.available_sockets) :
                   pl.socket_endpoints[pl.available_sockets[i]] = endpoint }
    IN IF idx = {} THEN 0 ELSE CHOOSE i \in idx : \A j \in idx : i <= j

\* The body of get_socket_async under the lock, the permit already taken.
\* The result is the pool after the call and the handle returned, or NoSock
\* when the call raises TimeoutError (and has released the permit).
GetSocketLocked(pl, endpoint) ==
    LET i == FirstMatch(pl, endpoint)
    IN IF i # 0
       THEN [ pool |-> [pl EXCEPT !.available_sockets = RemoveAt(@, i),
                                  !.in_use_count = @ + 1],
              sock |-> pl.available_sockets[i] ]
       ELSE IF pl.available_sockets # << >>
       THEN LET s == Head(pl.available_sockets)
            IN [ pool |-> [pl EXCEPT !.available_sockets = Tail(@),
                                     !.socket_endpoints[s] = endpoint,
                                     !.in_use_count = @ + 1],
                 sock |-> s ]
       ELSE IF pl.in_use_count < pl.max_pool_size
       THEN LET s == Len(pl.socket_endpoints) + 1
            IN [ pool |-> [pl EXCEPT !.socket_endpoints = Append(@, endpoint),
                                     !.in_use_count = @ + 1],
                 sock |-> s ]
       ELSE [ pool |-> SemRelease(pl), sock |-> NoSock ]

\* A return_socket that never closes a handle of the list.
ReturnSocketKeepsAll(pl, s) ==
    [pl EXCEPT !.available_sockets = Append(@, s),
               !.in_use_count = @ - 1,
               !.semaphore = @ + 1]
\* return_socket
ReturnSocket(pl, s) ==
    LET evict == Len(pl.available_sockets) >= pl.max_pool_size
        old == Head(pl.available_sockets)
        p1 == IF evict
              THEN [pl EXCEPT !.available_sockets = Tail(@),
                              !.socket_endpoints[old] = "",
                              !.closed = @ \cup {old}]
              ELSE pl
    IN [p1 EXCEPT !.available_sockets = Append(@, s),
                  !.in_use_count = @ - 1,
                  !.semaphore = @ + 1]

\* close_all: the handles of the list of available sockets are disconnected
\* and closed and their endpoints forgotten, the list is emptied and
\* in_use_count is set to 0.  The semaphore is left as it is.
PoolCloseAll(pl) ==
    LET avail == { pl.available_sockets[i] : i \in 1..Len(pl.available_sockets) }
    IN [pl EXCEPT !.closed = @ \cup avail,
                  !.socket_endpoints =
                      [h \in DOMAIN @ |-> IF h \in avail THEN "" ELSE @[h]],
                  !.available_sockets = << >>,
                  !.in_use_count = 0]

(***************************************************************************)
(* CacheServiceManager.  The TTLCache keeps its entries in two orders:     *)
(* root, the entries in the order in which they expire (every entry has    *)
(* the same lifetime, counted from the set that stored it), and links, the *)
(* keys from the least to the most recently used (read or stored).         *)
(***************************************************************************)
NA == 0                     \* the reply's "NA": no value is stored
Missing == -2               \* a field the message does not have
Unhashable == -3            \* a key that is a JSON list or object

NewCache == [root |-> << >>, links |-> << >>]
CacheKeys(c) == { c.root[i].key : i \in 1..Len(c.root) }
CacheIndex(c, k) == CHOOSE i \in 1..Len(c.root) : c.root[i].key = k
LinkIndex(c, k) == CHOOSE i \in 1..Len(c.links) : c.links[i] = k

\* TTLCache.__getlink: k becomes the most recently used key.
GetLink(c, k) == [c EXCEPT !.links = Append(RemoveAt(@, LinkIndex(c, k)), k)]

\* get_item: TTLCache.get, which marks the entry as used and does not renew
\* it.  The value is NA where the code has None.
GetItem(c, k) ==
    IF k \in CacheKeys(c)
    THEN [cache |-> GetLink(c, k), value |-> c.root[CacheIndex(c, k)].value]
    ELSE [cache |-> c, value |-> NA]

\* TTLCache.popitem: the least recently used entry goes.
PopItem(c) ==
    LET k == Head(c.links)
    IN [root |-> RemoveAt(c.root, CacheIndex(c, k)), links |-> Tail(c.links)]

\* TTLCache.expire when the lifetime of the oldest entry has ended.
Expire(c) ==
    LET k == Head(c.root).key
    IN [root |-> Tail(c.root), links |-> RemoveAt(c.links, LinkIndex(c, k))]

\* A set that keeps the value a key already has.
SetItemKeepsValue(c, k, v) ==
    IF k \in CacheKeys(c)
    THEN LET g == GetLink(c, k)
             old == c.root[CacheIndex(c, k)]
         IN [g EXCEPT !.root = Append(RemoveAt(@, CacheIndex(c, k)), old)]
    ELSE LET c1 == IF Len(c.root) >= CacheMaxSize THEN PopItem(c) ELSE c
         IN [root |-> Append(c1.root, [key |-> k, value |-> v]),
             links |-> Append(c1.links, k)]
\* set_item: TTLCache.__setitem__.  A key already stored gets the value and
\* a new lifetime; a new key evicts the least recently used entry when the
\* cache is full.  Either way the key becomes the most recently used.
SetItem(c, k, v) ==
    IF k \in CacheKeys(c)
    THEN LET g == GetLink(c, k)
         IN [g EXCEPT !.root = Append(RemoveAt(@, CacheIndex(c, k)),
                                      [key |-> k, value |-> v])]
    ELSE LET c1 == IF Len(c.root) >= CacheMaxSize THEN PopItem(c) ELSE c
         IN [root |-> Append(c1.root, [key |-> k, value |-> v]),
             links |-> Append(c1.links, k)]

\* A request message as the service receives it.  kind is "dict" (a JSON
\* object), "list" (JSON, but no object) or "garbage" (no JSON); action is
\* "get", "set", another string or "missing".
Msg(kind, action, key, value) ==
    [kind |-> kind, action |-> action, key |-> key, value |-> value]
GetMsg(k) == Msg("dict", "get", k, Missing)
SetMsg(k, v) == Msg("dict", "set", k, v)
NoMsg == Msg("none", "missing", Missing, Missing)

\* The replies.  status "none": the service sent no reply.
Success(v) == [status |-> "success", value |-> v]
Failed == [status |-> "failed", value |-> NA]
NoReply == [status |-> "none", value |-> NA]

\* A handler that swallows the exception and sends nothing.
ErrorReplyNone(c) == [cache |-> c, reply |-> NoReply, logged |-> TRUE]
\* except Exception of run(): the error is logged and answered.
ErrorReply(c) == [cache |-> c, reply |-> Failed, logged |-> TRUE]

\* One message handled by the loop of run(): the cache after it, the reply
\* sent and whether an error was logged.
CacheServe(c, msg) ==
    IF msg.kind = "garbage" THEN ErrorReply(c)               \* recv_json raises
    ELSE IF msg.kind # "dict"
    THEN [cache |-> c, reply |-> NoReply, logged |-> FALSE]
    ELSE IF msg.action = "missing" THEN ErrorReply(c)        \* KeyError
    ELSE IF msg.action = "get"
    THEN IF msg.key \in {Missing, Unhashable}
         THEN ErrorReply(c)                                  \* KeyError, TypeError
         ELSE LET g == GetItem(c, msg.key)
              IN [cache |-> g.cache, reply |-> Success(g.value), logged |-> FALSE]
    ELSE IF msg.action = "set"
    THEN IF msg.key = Missing \/ msg.value = Missing
         THEN ErrorReply(c)                                  \* KeyError
         ELSE IF msg.key = Unhashable
         THEN [cache |-> c, reply |-> Failed, logged |-> TRUE]   \* set_item: False
         ELSE [cache |-> SetItem(c, msg.key, msg.value),
               reply |-> Success(NA), logged |-> FALSE]
    ELSE [cache |-> c, reply |-> NoReply, logged |-> FALSE]

\* A request sent on a REQ handle and the recv_json that follows.  A service
\* whose loop has ended answers nothing: recv_json raises after RCVTIMEO.
Timeout == [status |-> "timeout", value |-> NA]
Request(c, running, msg) ==
    IF running
    THEN LET h == CacheServe(c, msg)
         IN [cache |-> h.cache, reply |-> h.reply]
    ELSE [cache |-> c, reply |-> Timeout]

(***************************************************************************)
(* FeedReader.  feed_last_refresh_on is kept as the time that has passed   *)
(* since it was set (None when it never was), counted up to                *)
(* min_refresh_interval, where get_feed stops telling the values apart.    *)
(* A feed document is [fp, ttl, upd]: the fingerprint of its first entry,  *)
(* the ttl it declares (None when it declares none) and the update time    *)
(* __update_feed_update_time parses from it (None when it parses none).    *)
(***************************************************************************)
NoFeed == [fp |-> NoHash, ttl |-> None, upd |-> None]

NewReader ==
    [ feed_last_updated_on |-> None,
      feed_last_refresh_on |-> None,
      feed |-> NoFeed,
      min_refresh_interval |-> ReaderMinRefreshInterval,
      has_updated_since_last_request |-> FALSE,
      last_feed_item_hash |-> NoHash,
      cache_service_socket |-> NoSock ]

SetCacheServiceSocket(rd, s) == [rd EXCEPT !.cache_service_socket = s]

\* __update_feed_update_time
UpdateFeedUpdateTime(rd, doc) ==
    IF doc.upd # None /\ rd.feed_last_updated_on # doc.upd
    THEN [rd EXCEPT !.feed_last_updated_on = doc.upd]
    ELSE rd

\* A novelty test that does not look at the reply of the cache.
IsNovelIgnoresCache(rd, fp, reply) == rd.last_feed_item_hash # fp
\* The novelty test of fetch_feed on the reply to the get request.
IsNovel(rd, fp, reply) ==
    /\ rd.last_feed_item_hash # fp
    /\ reply.value = NA

\* What fetch_feed does to the reader when it takes the novelty branch,
\* before it sends the set request.
\* A novelty branch that does not record the fingerprint.
MarkNovelForgetsHash(rd, fp) ==
    [rd EXCEPT !.has_updated_since_last_request = TRUE]
MarkNovel(rd, fp) ==
    [rd EXCEPT !.has_updated_since_last_request = TRUE,
               !.last_feed_item_hash = fp]

\* The exception a request that did not bring a feed ends in.  http is "ok",
\* "bozo" (a document feedparser rejects), "error" (the request failed: an
\* aiohttp.ClientError) or "timeout" (the time of the ClientSession ran out:
\* asyncio.TimeoutError).
HttpException(http) ==
    IF http = "bozo" THEN "ValueError"
    ELSE IF http = "error" THEN "ClientError"
    ELSE IF http = "timeout" THEN "asyncio.TimeoutError"
    ELSE ""

\* A set request whose reply is taken as a success whatever became of it.
SetFailedIgnored(reply) == FALSE
\* The set request failed: recv_json raised because no reply came, or the
\* reply has a status other than success ("Cache set failed").
SetFailed(reply) == reply.status # "success"

\* fetch_feed from the arrival of the HTTP response on, all of it without an
\* await.  stop_mid says that the service's loop ends after it has answered
\* the get request.  The result is the reader, the cache and the service
\* after the call, the class of the exception the call raised ("" when it
\* returned), what it sent, fault: a reply of the service did not come or
\* was no success, and pending: the handle has sent a request and received
\* no reply to it.  On a handle that was left so (pending), send_json raises
\* zmq.ZMQError: a REQ socket sends only after it has received the reply to
\* the request before.
FetchFeed(rd, c, running, http, doc, stamp, stop_mid, pending) ==
    IF rd.cache_service_socket = NoSock \/ http # "ok"
    THEN [ rd |-> rd, cache |-> c, running |-> running,
           raised |-> IF rd.cache_service_socket = NoSock THEN "ValueError"
                      ELSE HttpException(http),
           get_sent |-> FALSE, set_sent |-> FALSE, novel |-> FALSE,
           answered |-> FALSE, fault |-> FALSE, pending |-> pending ]
    ELSE IF pending
    THEN [ rd |-> rd, cache |-> c, running |-> running, raised |-> "zmq.ZMQError",
           get_sent |-> FALSE, set_sent |-> FALSE, novel |-> FALSE,
           answered |-> FALSE, fault |-> TRUE, pending |-> TRUE ]
    ELSE
    LET g == Request(c, running, GetMsg(doc.fp))
        run1 == running /\ ~stop_mid
    IN IF g.reply.status = "timeout"
       THEN [ rd |-> rd, cache |-> c, running |-> running, raised |-> "zmq.Again",
              get_sent |-> TRUE, set_sent |-> FALSE, novel |-> FALSE,
              answered |-> FALSE, fault |-> TRUE, pending |-> TRUE ]
       ELSE IF IsNovel(rd, doc.fp, g.reply)
       THEN LET rd1 == MarkNovel(rd, doc.fp)
                st == Request(g.cache, run1, SetMsg(doc.fp, stamp))
            IN IF SetFailed(st.reply)
               THEN [ rd |-> rd1, cache |-> st.cache, running |-> run1,
                      raised |-> IF st.reply.status = "timeout" THEN "zmq.Again"
                                 ELSE "ValueError",
                      get_sent |-> TRUE, set_sent |-> TRUE,
                      novel |-> TRUE, answered |-> TRUE, fault |-> TRUE,
                      pending |-> st.reply.status = "timeout" ]
               ELSE [ rd |-> UpdateFeedUpdateTime(
                                [rd1 EXCEPT !.feed = doc, !.feed_last_refresh_on = 0], doc),
                      cache |-> st.cache, running |-> run1,
                      raised |-> "", get_sent |-> TRUE, set_sent |-> TRUE,
                      novel |-> TRUE, answered |-> TRUE,
                      fault |-> st.reply.status # "success",
                      pending |-> st.reply.status = "timeout" ]
       ELSE [ rd |-> UpdateFeedUpdateTime(
                        [rd EXCEPT !.feed = doc, !.feed_last_refresh_on = 0], doc),
              cache |-> g.cache, running |-> run1,
              raised |-> "", get_sent |-> TRUE, set_sent |-> FALSE,
              novel |-> FALSE, answered |-> TRUE, fault |-> FALSE,
              pending |-> FALSE ]

\* The test of get_feed: fetch when the feed was never fetched or was
\* fetched min_refresh_interval ago or earlier.  (The code's comparison is
\* strict on the wall clock; the time counted here leaves out the time the
\* code itself takes, which is more than nothing.)
\* A get_feed that fetches at every call.
NeedsFetchAlways(rd) == TRUE
NeedsFetch(rd) ==
    \/ rd.feed_last_refresh_on = None
    \/ rd.feed_last_refresh_on >= rd.min_refresh_interval

\* The snapshot get_feed returns, and the reader after it.
\* A snapshot that reports an update whenever the reader has recorded a
\* fingerprint.
SnapshotOfHash(rd) ==
    [ feed_last_updated_on |-> rd.feed_last_updated_on,
      feed_last_refresh_on |-> rd.feed_last_refresh_on,
      feed |-> rd.feed,
      has_updated_since_last_request |-> rd.last_feed_item_hash # NoHash ]
Snapshot(rd) ==
    [ feed_last_updated_on |-> rd.feed_last_updated_on,
      feed_last_refresh_on |-> rd.feed_last_refresh_on,
      feed |-> rd.feed,
      has_updated_since_last_request |-> rd.has_updated_since_last_request ]
\* A get_feed that leaves the flag as it is.
ClearFlagKeeps(rd) == rd
\* A get_feed that clears the flag and forgets the fingerprint with it.
ClearFlagAndHash(rd) ==
    [rd EXCEPT !.has_updated_since_last_request = FALSE,
               !.last_feed_item_hash = NoHash]
ClearFlag(rd) == [rd EXCEPT !.has_updated_since_last_request = FALSE]

\* Time d passes for a reader.
Elapse(rd, d) ==
    IF rd.feed_last_refresh_on = None THEN rd
    ELSE [rd EXCEPT !.feed_last_refresh_on = Min(@ + d, rd.min_refresh_interval)]

(***************************************************************************)
(* Engine.__run_feed_sync_cycle: the pure parts of one cycle.              *)
(***************************************************************************)
\* An adaptation that leaves out feed_refresh_buffer.
AdaptIntervalNoBuffer(rt, snap, elapsed) ==
    IF snap.feed.ttl = None
    THEN [refresh_time |-> rt, raised |-> FALSE]
    ELSE LET r1 == snap.feed.ttl * 60 * U
         IN IF snap.feed_last_updated_on = None
            THEN [refresh_time |-> r1, raised |-> FALSE]
            ELSE IF r1 = 0
            THEN [refresh_time |-> r1, raised |-> TRUE]
            ELSE [refresh_time |-> r1 - (elapsed % r1), raised |-> FALSE]
\* refresh_time after the ttl adaptation of a snapshot; elapsed is
\* now - feed_last_updated_on.  raised: float modulo by zero (ttl = 0 with a
\* known update time), which leaves refresh_time at ttl * 60.
AdaptInterval(rt, snap, elapsed) ==
    IF snap.feed.ttl = None
    THEN [refresh_time |-> rt, raised |-> FALSE]
    ELSE LET r1 == snap.feed.ttl * 60 * U
         IN IF snap.feed_last_updated_on = None
            THEN [refresh_time |-> r1 + FeedRefreshBuffer, raised |-> FALSE]
            ELSE IF r1 = 0
            THEN [refresh_time |-> r1, raised |-> TRUE]
            ELSE [refresh_time |-> r1 - (elapsed % r1) + FeedRefreshBuffer,
                  raised |-> FALSE]

\* Whether "except TimeoutError" takes an exception of class exc.  builtin:
\* asyncio.TimeoutError is the built-in TimeoutError (Python 3.11 and later)
\* and not a class of its own (Python 3.10).
IsTimeoutError(exc, builtin) ==
    \/ exc = "TimeoutError"
    \/ exc = "asyncio.TimeoutError" /\ builtin

\* The back-off of the other handler.
TimeoutBackoffAsError(rt) == Min(rt * 2, ErrorBackoffCap)
\* except TimeoutError
TimeoutBackoff(rt) == Min((rt * 3) \div 2, TimeoutBackoffCap)
\* except Exception
ErrorBackoff(rt) == Min(rt * 2, ErrorBackoffCap)

\* jitter = (refresh_time * 0.1) * (threading.get_ident() % 10) / 10
Jitter(rt, thread_ident) == (rt * (thread_ident % 10)) \div 100
\* actual_refresh = max(10, refresh_time + jitter)
ActualRefresh(rt, thread_ident) == Max(MinSleep, rt + Jitter(rt, thread_ident))

\* A finally clause that forgets the cache handle.
FinallySpiderOnly(pl, sp, ca) ==
    IF sp # NoSock THEN [pl EXCEPT !.spider = ReturnSocket(@, sp)] ELSE pl
\* The finally clause: both handles, when held, go back to their pools.
Finally(pl, sp, ca) ==
    LET a == IF sp # NoSock THEN [pl EXCEPT !.spider = ReturnSocket(@, sp)] ELSE pl
    IN IF ca # NoSock THEN [a EXCEPT !.cache = ReturnSocket(@, ca)] ELSE a

\* One pass of the acquisition loop of get_socket_async on pool pl: "busy"
\* when no permit is free (the caller then sleeps one second), otherwise the
\* result of the locked body.
TryGetSocket(pl, endpoint) ==
    IF pl.semaphore > 0
    THEN LET g == GetSocketLocked(SemAcquire(pl), endpoint)
         IN [pool |-> g.pool, sock |-> g.sock, busy |-> FALSE]
    ELSE [pool |-> pl, sock |-> NoSock, busy |-> TRUE]

(***************************************************************************)
(* KafkaProducerManager.  A message is the number of the extraction job    *)
(* that published it.                                                      *)
(***************************************************************************)
\* num_producers = min(num_producers, __MAX_PRODUCERS) without the cap.
CappedNot(n) == n
\* num_producers = min(num_producers, __MAX_PRODUCERS)
Capped(n) == Min(n, MaxProducers)

\* __init__ with num_producers = n, where _create_producer_with_retry
\* returns a producer for the indices in ok: one producer and one worker
\* thread for each of them that the loop reaches.  alive: the worker threads
\* whose loop has not ended; call: where the publish_message of each message
\* is, "none" (not called), "checked" (past the test of fallback_mode and
\* shutdown_event), "waiting" (in put, the queue full), "true" or "false"
\* (returned); produced: history, how often each message was passed to
\* produce().
NewKafka(n, ok) ==
    LET created == { i \in 1..Capped(n) : i \in ok }
    IN [ num_producers |-> n, fallback_mode |-> created = {},
         shutdown_event |-> FALSE,
         message_queue |-> << >>, producers |-> created,
         worker_threads |-> created, alive |-> created,
         call |-> [j \in Jobs |-> "none"],
         produced |-> [j \in Jobs |-> 0] ]

\* publish_message up to the put: "false" in the fallback mode or after the
\* shutdown event, "true" when the queue took the message, "blocked" when the
\* queue is full and put(timeout=2.0) waits.
Offer(k, j) ==
    IF k.fallback_mode \/ k.shutdown_event
    THEN [kafka |-> k, result |-> "false"]
    ELSE IF Len(k.message_queue) < QueueMaxSize
    THEN [kafka |-> [k EXCEPT !.message_queue = Append(@, j)], result |-> "true"]
    ELSE [kafka |-> k, result |-> "blocked"]

\* close_all: the event is set, the worker threads are joined, and both
\* lists are cleared.
KafkaCloseAll(k) ==
    IF k.shutdown_event THEN k
    ELSE [k EXCEPT !.shutdown_event = TRUE, !.worker_threads = {}, !.producers = {}]

\* One pass of the loop of _worker_thread that gets a message: it goes to
\* produce() and task_done() is called.
TakeMessage(k) ==
    [k EXCEPT !.message_queue = Tail(@),
              !.produced[Head(k.message_queue)] = Min(@ + 1, 2)]

\* The test of the loop of _worker_thread that worker w makes after a pass:
\* the loop ends when the shutdown event is set.
LoopTest(k, w) ==
    IF k.shutdown_event THEN [k EXCEPT !.alive = @ \ {w}] ELSE k

\* The first test of publish_message for message j.
PublishTest(k, j) ==
    [k EXCEPT !.call[j] = IF k.fallback_mode \/ k.shutdown_event
                          THEN "false" ELSE "checked"]

\* message_queue.put(..., timeout=2.0) for message j, from its call or from
\* its wait: the queue takes the message when it has room; otherwise the
\* call waits, and raises queue.Full when it has waited two seconds.
PutMessage(k, j) ==
    IF Len(k.message_queue) < QueueMaxSize
    THEN [k EXCEPT !.message_queue = Append(@, j), !.call[j] = "true"]
    ELSE IF k.call[j] = "checked" THEN [k EXCEPT !.call[j] = "waiting"]
    ELSE [k EXCEPT !.call[j] = "false"]

(***************************************************************************)
(* Articles.  A value of a field is a record of its Python type (kind) and *)
(* its content (val), a sequence of strings: no string for None, the       *)
(* elements for a list or a set, one string for everything else.           *)
(***************************************************************************)
Value(kind, val) == [kind |-> kind, val |-> val]
PyNone == Value("none", << >>)
PyStr(str) == Value("str", << str >>)

\* A dataclass Article that also has the field id.
ArticleFieldsWithId ==
    { "id", "title", "author", "publication_date", "source", "url", "summary",
      "content", "tags", "categories", "images" }
\* The fields of the dataclass Article.
ArticleFields ==
    { "title", "author", "publication_date", "source", "url", "summary",
      "content", "tags", "categories", "images" }

\* What newspaper made of a page: readable is FALSE when download() or
\* parse() raises; authors is a list, tags a set, publish_date a datetime
\* or None.
Page(readable, authors, publish_date, tags) ==
    [ readable |-> readable, authors |-> authors, publish_date |-> publish_date,
      tags |-> tags ]

\* The keyword arguments __scrape_data calls Article with.
ScrapeData(page, source_name) ==
    [ id |-> Value("ObjectId", << "oid" >>),
      title |-> PyStr("title"),
      author |-> Value("list", page.authors),
      publication_date |-> IF page.publish_date = "" THEN PyNone
                           ELSE Value("datetime", << page.publish_date >>),
      source |-> Value("ArticleSource", << source_name >>),
      url |-> PyStr("url"),
      summary |-> PyStr(""),
      content |-> PyStr("text"),
      tags |-> Value("set", page.tags),
      categories |-> Value("list", << >>),
      images |-> Value("set", << >>) ]

\* The __init__ a dataclass generates: TypeError for a keyword that is no
\* field, and for a field without its argument.
NewArticle(kwargs) ==
    [ raised |-> IF DOMAIN kwargs = ArticleFields THEN "" ELSE "TypeError",
      dict |-> kwargs ]

\* ArticleSpider.extract_data: __download_data, then __scrape_data.
ExtractData(page, source_name) ==
    IF ~page.readable
    THEN [ raised |-> "ArticleException", dict |-> << >> ]
    ELSE NewArticle(ScrapeData(page, source_name))

RECURSIVE Join(_, _)
\* sep.join(seq)
Join(seq, sep) ==
    IF Len(seq) = 0 THEN ""
    ELSE IF Len(seq) = 1 THEN seq[1]
    ELSE seq[1] \o sep \o Join(Tail(seq), sep)

\* The loop of __mine_article that builds kafka_article, for one value.
KafkaValue(v) ==
    IF v.kind \in {"list", "set"}
    THEN IF Len(v.val) = 0 THEN PyStr("NULL") ELSE PyStr(Join(v.val, " ,"))
    ELSE IF v.kind = "none" THEN PyStr("NULL")
    ELSE v

\* __mine_article from article.__dict__ to kafka_article: the id becomes its
\* str(), the source its name, a datetime publication_date its strftime
\* text, and then every value goes through the loop.
KafkaArticle(dict) ==
    LET d == [dict EXCEPT
                !["id"] = PyStr(@.val[1]),
                !["source"] = PyStr(@.val[1]),
                !["publication_date"] =
                    IF @.kind = "datetime" THEN PyStr(@.val[1] \o "+0000") ELSE @]
    IN [k \in DOMAIN d |-> KafkaValue(d[k])]
NoArticle == << >>

\* The pages of the models: one that newspaper cannot read, and readable
\* ones with and without authors, publication date and tags.
Pages ==
    { Page(FALSE, << >>, "", << >>) } \cup
    { Page(TRUE, a, d, t) : a \in {<< >>, << "a", "b" >>},
                            d \in {"", "2024-01-01T00:00:00.000000"},
                            t \in {<< >>, << "t" >>} }

(***************************************************************************)
(* SpiderTaskQue.  job[j] is where the extraction job of record j is:      *)
(* "none" (the record has not arrived), "queued" (submitted to the thread  *)
(* pool), "mining" (in extract_data), "offering" (in the put of            *)
(* publish_message), "done", "refused" (submit raised because the pool was *)
(* shut down) or "discarded" (the lookup of the source raised).            *)
(***************************************************************************)
\* A record a poller pushes: the id of its source and the host of the url
\* of the article, "own" when it is the domain of the source.
Record(source_id, host) == [source_id |-> source_id, host |-> host]
NoRecord == Record(0, "")

\* record: the record each job was received with; logged: the jobs whose
\* record made the loop of run() log an error; parsed: the jobs whose page
\* newspaper downloaded and parsed; article: the jobs whose extract_data
\* returned an article; out: the kafka_article each job built; sink: the
\* rows written to the table sink, per job.
NewQue ==
    [ event |-> FALSE, thread |-> "run", pool_shutdown |-> FALSE,
      job |-> [j \in Jobs |-> "none"], record |-> [j \in Jobs |-> NoRecord],
      logged |-> {}, parsed |-> {}, article |-> {},
      out |-> [j \in Jobs |-> NoArticle],
      sink |-> [j \in Jobs |-> 0] ]

\* A registry that holds every source.
LookupAny(registry, source_id) == TRUE
\* RSS_SOURCE_LIST[ObjectId(message["source_id"])] finds the source.
Lookup(registry, source_id) == source_id \in registry

\* One pass of the loop of run() that receives record r for job j: the
\* lookup of the source raises KeyError, or submit raises RuntimeError
\* because the pool is shut down, and the loop logs the error; or the job is
\* submitted.
Receive(q, j, r, registry) ==
    LET got == [q EXCEPT !.record[j] = r]
    IN IF ~Lookup(registry, r.source_id)
       THEN [got EXCEPT !.job[j] = "discarded", !.logged = @ \cup {j}]
       ELSE IF q.pool_shutdown
       THEN [got EXCEPT !.job[j] = "refused", !.logged = @ \cup {j}]
       ELSE [got EXCEPT !.job[j] = "queued"]

Unfinished(q) == { j \in Jobs : q.job[j] \in {"queued", "mining", "offering"} }
Running(q) == { j \in Jobs : q.job[j] \in {"mining", "offering"} }

\* hasattr(self, "__kafka_manager"), "__socket", "__context" in __cleanup:
\* the attributes are stored under their mangled names
\* (_SpiderTaskQue__kafka_manager), so the test fails.
HasAttr(name) == FALSE

\* __cleanup once the thread pool is shut down: flush_all and close_all of
\* the publisher pool, when the test finds the attribute.
CleanupKafka(k) == IF HasAttr("__kafka_manager") THEN KafkaCloseAll(k) ELSE k

\* __mine_article after publish_message returned: a row for the table sink
\* when it returned False.
AfterPublish(q, j, published) ==
    IF published THEN [q EXCEPT !.job[j] = "done"]
    ELSE [q EXCEPT !.job[j] = "done", !.sink[j] = Min(@ + 1, 2)]

(***************************************************************************)
(* utils/checksum_validator.  A data file is its size and its modification *)
(* time; the content of a checksum file is a sequence of tokens, each a    *)
(* run of whitespace (White) or a run of other characters.                 *)
(***************************************************************************)
File(exists, size, mtime, content) ==
    [exists |-> exists, size |-> size, mtime |-> mtime, content |-> content]
NoFile == File(FALSE, 0, 0, << >>)
DataFile(size, mtime) == File(TRUE, size, mtime, << >>)
ChecksumFile(content) == File(TRUE, 0, 0, content)
White == "\n"

\* generate_checksum: the SHA-256 digest of f"{file_size}{modified_time}",
\* here the text that is hashed, marked as a digest.
GenerateChecksum(data) ==
    "sha256:" \o ToString(data.size) \o ToString(data.mtime) \o ".0"

RECURSIVE LStrip(_)
LStrip(content) ==
    IF content # << >> /\ Head(content) = White THEN LStrip(Tail(content))
    ELSE content
RECURSIVE RStrip(_)
RStrip(content) ==
    IF content # << >> /\ content[Len(content)] = White
    THEN RStrip(SubSeq(content, 1, Len(content) - 1))
    ELSE content
\* str.strip()
Strip(content) == RStrip(LStrip(content))

\* The files a run starts with and what the last call returned or raised.
NewFs(data, checksum) == [data |-> data, checksum |-> checksum, result |-> ""]

\* A check that never writes the checksum file.
CheckOnly(f) ==
    IF ~f.data.exists THEN [f EXCEPT !.result = "FileNotFoundError"]
    ELSE IF f.checksum.exists
            /\ Strip(f.checksum.content) = << GenerateChecksum(f.data) >>
    THEN [f EXCEPT !.result = "True"]
    ELSE [f EXCEPT !.result = "False"]
\* check_or_create_checksum
CheckOrCreateChecksum(f) ==
    IF ~f.data.exists THEN [f EXCEPT !.result = "FileNotFoundError"]
    ELSE LET generated_checksum == GenerateChecksum(f.data)
         IN IF f.checksum.exists
               /\ Strip(f.checksum.content) = << generated_checksum >>
            THEN [f EXCEPT !.result = "True"]
            ELSE [f EXCEPT !.result = "False",
                           !.checksum = ChecksumFile(<< generated_checksum >>)]

(***************************************************************************)
(* The state.                                                              *)
(***************************************************************************)
VARIABLES
    cfg,            \* what the environment of this run may do (never changes)
    thread_ident,   \* threading.get_ident() of the thread of the event loop
    pools,          \* Engine.__spider_socket_pool and Engine.__cache_socket_pool
    ttl_cache,      \* CacheServiceManager.__ttl_cache
    cache_running,  \* the loop of CacheServiceManager.run has not ended
    service,        \* the REP socket of the service and its last exchange
    kafka,          \* the KafkaProducerManager of the SpiderTaskQue
    que,            \* the SpiderTaskQue: its thread, its thread pool and jobs
    app,            \* App.stop: where it is, and the tasks it has cancelled
    reader,         \* the FeedReader of each source
    poller,         \* the task of each source
    run,            \* history: per source, the fetches since its feed last changed
    ever_cached,    \* history: the fingerprints the cache has held
    live,           \* history: per fingerprint, the novelty branches taken for it
                    \* since the cache last held no entry for it
    ev,             \* history: what the last step did
    fs              \* the data file and the checksum file of the validator

vars == << cfg, thread_ident, pools, ttl_cache, cache_running, service, kafka, que,
           app, reader, poller, run, ever_cached, live, ev, fs >>
appvars == << kafka, que, app, fs >>

\* exc, fault, novel: what the fetch_feed of the present cycle ended in: the
\* class of its exception, whether a reply of the cache service failed and
\* whether it took the novelty branch.
NewPoller ==
    [ pc |-> "sleep", tries |-> 0, spider_sock |-> NoSock, cache_sock |-> NoSock,
      refresh_time |-> FeedMinRefreshInterval, sleep_for |-> 0,
      cycles |-> 0, exc |-> "", fault |-> FALSE, novel |-> FALSE ]

\* fp: the fingerprint of the source's last fetch; fresh: "yes" when the cache,
\* on its first answer about fp in this run, had never held fp, "no" when it
\* had; novel: a fetch of this run took the novelty branch; returned, trues:
\* the snapshots get_feed returned in this run, and those with the flag set;
\* unsent: the push of the record of the last such snapshot failed.
NewRun ==
    [ fp |-> NoHash, fresh |-> "unknown", novel |-> FALSE, returned |-> 0,
      trues |-> 0, unsent |-> FALSE ]
Cap2(n) == Min(n, 2)

\* op: "cycle" (a task ran from the start of its cycle, or from a wait for a
\* permit, to its next await), "fetch" (the body of fetch_feed ran), "return"
\* (fetch_feed returned or raised and the cycle ran to its sleep), "cancel",
\* "stop", "expire"; job: the job whose record the dispatcher received in
\* this step; pool: the pool whose close_all ran in this step; timeout: the pool
\* whose acquisition timed out; requests: the requests sent to the cache
\* service (the second one is the set); returned, flag: get_feed returned a
\* snapshot, and its has_updated_since_last_request; elapsed: now -
\* feed_last_updated_on as the ttl adaptation of that snapshot read it;
\* pushed: send_json on the spider handle succeeded; error: the cycle ended
\* in the handler of Exception.  timeout is "fetch" when the handler of
\* TimeoutError took an exception of fetch_feed; evicted: a return_socket of
\* the finally clause found the list of its pool full and closed a handle.
NoEv ==
    [ op |-> "none", src |-> 0, job |-> 0, pool |-> "", timeout |-> "", requests |-> 0,
      returned |-> FALSE, flag |-> FALSE, elapsed |-> 0, pushed |-> FALSE,
      error |-> FALSE, evicted |-> FALSE ]

\* owes_reply: the REP socket has received a request and sent no reply to
\* it, so that it takes no further request; request, reply, logged: the last
\* message a client sent to the service directly, the reply to it and
\* whether the service logged an error for it; latest: history, per key the
\* value of the last set of such a client that was answered with success,
\* NA once the entry has expired or been evicted; set_order: history, the
\* keys of those sets from the earliest to the latest, without the keys
\* whose entry has expired or been evicted.
\* socket_open, context_open: the REP socket of the service has not been
\* closed, its context has not been terminated.
NewService ==
    [ owes_reply |-> FALSE, request |-> NoMsg, reply |-> NoReply,
      logged |-> FALSE, latest |-> [k \in Keys |-> NA], set_order |-> << >>,
      socket_open |-> TRUE, context_open |-> TRUE ]
Without(seq, keys) == SelectSeq(seq, LAMBDA k : k \notin keys)

\* pc: "running" before stop() is called, then the step stop() is at, then
\* "stopped"; cancelling: the tasks stop() has cancelled that have not run
\* since.
NewApp == [pc |-> "running", cancelling |-> {}]

\* The event loop can run the task of p: stop() is not running on its thread
\* and has not cancelled the task.
LoopRuns(p) == app.pc \in {"running", "stopped"} /\ p \notin app.cancelling

InitWith(configs) ==
    /\ cfg \in configs
    /\ thread_ident \in cfg.idents
    /\ pools = [n \in PoolNames |-> NewPool(cfg.max_pool_size[n],
                                               cfg.max_concurrent_users[n],
                                               cfg.connection_timeout)]
    /\ ttl_cache = NewCache
    /\ cache_running = TRUE
    /\ service = NewService
    /\ \E n \in cfg.num_producers, ok \in cfg.producers : kafka = NewKafka(n, ok)
    /\ que = NewQue
    /\ app = NewApp
    /\ reader = [s \in Sources |-> NewReader]
    /\ poller = [s \in Sources |-> NewPoller]
    /\ run = [s \in Sources |-> NewRun]
    /\ ever_cached = {}
    /\ live = [f \in Fps |-> 0]
    /\ ev = NoEv
    /\ \E d \in cfg.data_files, c \in cfg.checksum_files : fs = NewFs(d, c)

(***************************************************************************)
(* The end of a cycle: the finally clause, the jitter and the sleep.       *)
(* lag is the time by which the task is resumed late.                      *)
(***************************************************************************)
GoSleep(p, pl, rd, rt, sp, ca, lag, e) ==
    /\ pools' = Finally(pl, sp, ca)
    /\ poller' = [poller EXCEPT ![p] =
                    [@ EXCEPT !.pc = "sleep", !.tries = 0,
                              !.spider_sock = NoSock, !.cache_sock = NoSock,
                              !.refresh_time = rt,
                              !.sleep_for = ActualRefresh(rt, thread_ident),
                              !.cycles = @ + 1, !.exc = "", !.fault = FALSE,
                              !.novel = FALSE]]
    /\ reader' = [reader EXCEPT ![p] =
                    Elapse(rd, ActualRefresh(rt, thread_ident) + lag)]
    /\ ev' = [e EXCEPT !.evicted =
                 \E n \in PoolNames : Finally(pl, sp, ca)[n].closed # pl[n].closed]

\* except TimeoutError: the acquisition on pool `which` timed out.
PoolTimeoutStage(p, pl, rd, sp, which, lag) ==
    /\ GoSleep(p, pl, rd, TimeoutBackoff(poller[p].refresh_time), sp, NoSock, lag,
               [NoEv EXCEPT !.op = "cycle", !.src = p, !.timeout = which])
    /\ UNCHANGED run

\* except TimeoutError, for a TimeoutError that fetch_feed raised.
FetchTimeoutStage(p, pl, rd, rt, sp, ca, lag, e) ==
    GoSleep(p, pl, rd, TimeoutBackoff(rt), sp, ca, lag, [e EXCEPT !.timeout = "fetch"])

\* except Exception
ErrorStage(p, pl, rd, rt, sp, ca, lag, e) ==
    GoSleep(p, pl, rd, ErrorBackoff(rt), sp, ca, lag, [e EXCEPT !.error = TRUE])

\* get_feed has its data: the snapshot, the ttl adaptation and the push.
ReturnStage(p, pl, rd, sp, ca, elapsed, push_ok, lag, e) ==
    LET snap == Snapshot(rd)
        rd2 == ClearFlag(rd)
        ad == AdaptInterval(poller[p].refresh_time, snap, elapsed)
        flag == snap.has_updated_since_last_request
        sent == ~ad.raised /\ flag /\ push_ok
        e2 == [e EXCEPT !.returned = TRUE, !.flag = flag, !.elapsed = elapsed,
                        !.pushed = sent]
    IN /\ IF ad.raised \/ (flag /\ ~push_ok)
          THEN ErrorStage(p, pl, rd2, ad.refresh_time, sp, ca, lag, e2)
          ELSE GoSleep(p, pl, rd2, ad.refresh_time, sp, ca, lag, e2)
       /\ run' = [run EXCEPT ![p] =
                    [@ EXCEPT !.returned = Min(@ + 1, 1),
                              !.trues = Cap2(@ + (IF flag THEN 1 ELSE 0)),
                              !.unsent = IF ~ad.raised /\ flag THEN ~push_ok ELSE @]]

\* Both handles are held: set_cache_service_socket and get_feed, up to the
\* HTTP request when the feed is to be fetched.
GetFeedStage(p, pl, rd, sp, ca, elapsed, push_ok, lag) ==
    LET rd1 == SetCacheServiceSocket(rd, ca)
    IN IF NeedsFetch(rd1)
       THEN /\ pools' = pl
            /\ reader' = [reader EXCEPT ![p] = rd1]
            /\ poller' = [poller EXCEPT ![p] =
                            [@ EXCEPT !.pc = "http", !.tries = 0,
                                      !.spider_sock = sp, !.cache_sock = ca]]
            /\ ev' = [NoEv EXCEPT !.op = "cycle", !.src = p]
            /\ UNCHANGED run
       ELSE ReturnStage(p, pl, rd1, sp, ca, elapsed, push_ok, lag,
                        [NoEv EXCEPT !.op = "cycle", !.src = p])

\* The spider handle sp is held: a pass of the acquisition loop on the cache
\* pool after k failed passes.
CacheStage(p, pl, rd, sp, k, elapsed, push_ok, lag) ==
    LET t == TryGetSocket(pl.cache, CacheEndpoint)
        pl1 == [pl EXCEPT !.cache = t.pool]
    IN IF t.busy
       THEN /\ pools' = pl
            /\ reader' = [reader EXCEPT ![p] = rd]
            /\ poller' = [poller EXCEPT ![p] =
                            [@ EXCEPT !.pc = "wait_cache", !.tries = k + 1,
                                      !.spider_sock = sp]]
            /\ ev' = [NoEv EXCEPT !.op = "cycle", !.src = p]
            /\ UNCHANGED run
       ELSE IF t.sock = NoSock
       THEN PoolTimeoutStage(p, pl1, rd, sp, "cache", lag)
       ELSE GetFeedStage(p, pl1, rd, sp, t.sock, elapsed, push_ok, lag)

\* A pass of the acquisition loop on the spider pool after k failed passes.
SpiderStage(p, pl, rd, k, elapsed, push_ok, lag) ==
    LET t == TryGetSocket(pl.spider, SpiderEndpoint)
        pl1 == [pl EXCEPT !.spider = t.pool]
    IN IF t.busy
       THEN /\ pools' = pl
            /\ reader' = [reader EXCEPT ![p] = rd]
            /\ poller' = [poller EXCEPT ![p] =
                            [@ EXCEPT !.pc = "wait_spider", !.tries = k + 1]]
            /\ ev' = [NoEv EXCEPT !.op = "cycle", !.src = p]
            /\ UNCHANGED run
       ELSE IF t.sock = NoSock
       THEN PoolTimeoutStage(p, pl1, rd, NoSock, "spider", lag)
       ELSE CacheStage(p, pl1, rd, t.sock, 0, elapsed, push_ok, lag)

(***************************************************************************)
(* The actions of a poller task.                                           *)
(***************************************************************************)
\* The sleep between two cycles (or the start of the task) ends: the cycle
\* runs up to its next await.
Wake(p) ==
    /\ LoopRuns(p)
    /\ poller[p].pc = "sleep"
    /\ poller[p].cycles < cfg.cycles[p]
    /\ \E elapsed \in cfg.elapsed, push_ok \in BOOLEAN, lag \in cfg.lags :
         SpiderStage(p, pools, reader[p], 0, elapsed, push_ok, lag)
    /\ UNCHANGED << cfg, appvars, service, thread_ident, ttl_cache, cache_running, ever_cached, live >>

\* The one-second sleep of get_socket_async ends: the next pass of its loop,
\* or TimeoutError after connection_timeout passes.
Resume(p) ==
    /\ LoopRuns(p)
    /\ poller[p].pc \in {"wait_spider", "wait_cache"}
    /\ \E elapsed \in cfg.elapsed, push_ok \in BOOLEAN, lag \in cfg.lags :
         LET rd == Elapse(reader[p], U)
             k == poller[p].tries
             sp == poller[p].spider_sock
             which == IF poller[p].pc = "wait_spider" THEN "spider" ELSE "cache"
         IN IF k >= pools[which].connection_timeout
            THEN PoolTimeoutStage(p, pools, rd, sp, which, lag)
            ELSE IF which = "spider"
            THEN SpiderStage(p, pools, rd, k, elapsed, push_ok, lag)
            ELSE CacheStage(p, pools, rd, sp, k, elapsed, push_ok, lag)
    /\ UNCHANGED << cfg, appvars, service, thread_ident, ttl_cache, cache_running, ever_cached, live >>

\* The HTTP response (or its failure) arrives: the rest of fetch_feed, up to
\* the await that closes the response and the session.
HttpResponse(p) ==
    /\ LoopRuns(p)
    /\ poller[p].pc = "http"
    /\ \E http \in cfg.https, fp \in cfg.fps, ttl \in cfg.ttls,
          upd \in cfg.upds, stamp \in cfg.stamps, stop_mid \in BOOLEAN :
         LET doc == [fp |-> fp, ttl |-> ttl, upd |-> upd]
             ca == poller[p].cache_sock
             f == FetchFeed(reader[p], ttl_cache, cache_running, http, doc,
                            stamp, stop_mid, ca \in pools.cache.awaiting)
             r0 == IF http = "ok" /\ run[p].fp # fp
                   THEN [NewRun EXCEPT !.fp = fp] ELSE run[p]
             r1 == IF f.answered /\ r0.fresh = "unknown"
                   THEN [r0 EXCEPT !.fresh = IF fp \in ever_cached THEN "no" ELSE "yes"]
                   ELSE r0
             r2 == [r1 EXCEPT !.novel = @ \/ f.novel]
             gone == CacheKeys(ttl_cache) \ CacheKeys(f.cache)
             l0 == [k \in Fps |-> IF k \in gone THEN 0 ELSE live[k]]
         IN /\ reader' = [reader EXCEPT ![p] = f.rd]
            /\ ttl_cache' = f.cache
            /\ cache_running' = f.running
            /\ poller' = [poller EXCEPT ![p] = [@ EXCEPT !.pc = "closing",
                                                          !.exc = f.raised,
                                                          !.fault = f.fault,
                                                          !.novel = f.novel]]
            /\ run' = [run EXCEPT ![p] = r2]
            /\ ever_cached' = ever_cached \cup CacheKeys(f.cache)
            /\ live' = IF f.novel
                       THEN [l0 EXCEPT ![fp] = Cap2(@ + 1)] ELSE l0
            /\ pools' = IF f.pending
                        THEN [pools EXCEPT !.cache.awaiting = @ \cup {ca}]
                        ELSE pools
            /\ ev' = [NoEv EXCEPT !.op = "fetch", !.src = p,
                                  !.requests = (IF f.get_sent THEN 1 ELSE 0)
                                               + (IF f.set_sent THEN 1 ELSE 0)]
    /\ UNCHANGED << cfg, appvars, service, thread_ident >>

\* The response and the session are closed: fetch_feed returns to get_feed,
\* or its exception reaches the handlers of the cycle.
FetchReturn(p) ==
    /\ LoopRuns(p)
    /\ poller[p].pc = "closing"
    /\ \E elapsed \in cfg.elapsed, push_ok \in BOOLEAN, lag \in cfg.lags :
         LET sp == poller[p].spider_sock
             ca == poller[p].cache_sock
             e == [NoEv EXCEPT !.op = "return", !.src = p]
         IN IF poller[p].exc = ""
            THEN ReturnStage(p, pools, reader[p], sp, ca, elapsed, push_ok, lag, e)
            ELSE /\ IF IsTimeoutError(poller[p].exc, cfg.builtin_timeout)
                    THEN FetchTimeoutStage(p, pools, reader[p], poller[p].refresh_time,
                                           sp, ca, lag, e)
                    ELSE ErrorStage(p, pools, reader[p], poller[p].refresh_time,
                                    sp, ca, lag, e)
                 /\ UNCHANGED run
    /\ UNCHANGED << cfg, appvars, service, thread_ident, ttl_cache, cache_running, ever_cached, live >>

\* close_all is called on pool n, under the lock of the pool, while the
\* pollers are at their awaits.
CloseAll(n) ==
    /\ pools' = [pools EXCEPT ![n] = PoolCloseAll(@)]
    /\ ev' = [NoEv EXCEPT !.op = "close_all", !.pool = n]
    /\ UNCHANGED << cfg, appvars, service, thread_ident, ttl_cache, cache_running,
                    ever_cached, live, reader, poller, run >>

\* worker.cancel(): CancelledError is raised at the await the task is
\* suspended in; only the finally clause runs.
Cancelled(p) ==
    /\ poller[p].pc \in {"sleep", "wait_spider", "wait_cache", "http", "closing"}
    /\ pools' = Finally(pools, poller[p].spider_sock, poller[p].cache_sock)
    /\ poller' = [poller EXCEPT ![p] =
                    [@ EXCEPT !.pc = "cancelled", !.tries = 0,
                              !.spider_sock = NoSock, !.cache_sock = NoSock,
                              !.exc = "", !.fault = FALSE]]
    /\ ev' = [NoEv EXCEPT !.op = "cancel", !.src = p]
    /\ UNCHANGED << cfg, fs, thread_ident, ttl_cache, cache_running, service, kafka,
                    que, reader, run, ever_cached, live >>

\* Somebody cancels the task of p while the application runs.
Cancel(p) ==
    /\ app.pc = "running"
    /\ Cancelled(p)
    /\ app' = app

\* The event loop runs the task of p that stop() cancelled.
CancelDelivered(p) ==
    /\ app.pc = "stopped" /\ p \in app.cancelling
    /\ Cancelled(p)
    /\ app' = [app EXCEPT !.cancelling = @ \ {p}]

(***************************************************************************)
(* The environment.                                                        *)
(***************************************************************************)
\* The event of the cache service is set and its loop ends.
StopCacheService ==
    /\ cache_running
    /\ cache_running' = FALSE
    /\ ev' = [NoEv EXCEPT !.op = "stop"]
    /\ UNCHANGED << cfg, appvars, service, thread_ident, pools, ttl_cache, reader, poller, run,
                    ever_cached, live >>

\* The lifetime of the oldest entry of the cache ends.
ExpireOldest ==
    /\ ttl_cache.root # << >>
    /\ ttl_cache' = Expire(ttl_cache)
    /\ live' = [f \in Fps |-> IF f = Head(ttl_cache.root).key THEN 0 ELSE live[f]]
    /\ service' = [service EXCEPT
                      !.latest[Head(ttl_cache.root).key] = NA,
                      !.set_order = Without(@, {Head(ttl_cache.root).key})]
    /\ ev' = [NoEv EXCEPT !.op = "expire"]
    /\ UNCHANGED << cfg, appvars, thread_ident, pools, cache_running, reader, poller, run,
                    ever_cached >>

\* A client other than a FeedReader sends one message to the service, whose
\* loop takes it from the REP socket and handles it.
ClientRequest ==
    /\ cache_running /\ ~service.owes_reply
    /\ \E msg \in cfg.msgs :
         LET h == CacheServe(ttl_cache, msg)
             stored == msg.action = "set" /\ h.reply.status = "success"
             gone == CacheKeys(ttl_cache) \ CacheKeys(h.cache)
         IN /\ ttl_cache' = h.cache
            /\ service' =
                 [ service EXCEPT
                   !.owes_reply = h.reply.status = "none",
                   !.request = msg, !.reply = h.reply, !.logged = h.logged,
                   !.latest = [k \in Keys |->
                                 IF stored /\ k = msg.key THEN msg.value
                                 ELSE IF k \in CacheKeys(h.cache)
                                 THEN service.latest[k] ELSE NA],
                   !.set_order = IF stored
                                 THEN Append(Without(service.set_order,
                                                     gone \cup {msg.key}), msg.key)
                                 ELSE service.set_order ]
            /\ ever_cached' = ever_cached \cup CacheKeys(h.cache)
    /\ ev' = [NoEv EXCEPT !.op = "request"]
    /\ UNCHANGED << cfg, appvars, thread_ident, pools, cache_running, reader, poller, run,
                    live >>

(***************************************************************************)
(* The extraction dispatcher, its jobs and the publisher pool.             *)
(***************************************************************************)
\* The loop of SpiderTaskQue.run receives the record of job j.
RecordArrives(j) ==
    /\ j \in cfg.jobs
    /\ que.thread = "run" /\ que.job[j] = "none"
    /\ \E r \in cfg.records : que' = Receive(que, j, r, cfg.registry)
    /\ ev' = [NoEv EXCEPT !.op = "record", !.job = j]
    /\ UNCHANGED << cfg, fs, thread_ident, pools, ttl_cache, cache_running, service,
                    kafka, app, reader, poller, run, ever_cached, live >>

\* A thread of the pool is free and takes job j.
StartJob(j) ==
    /\ que.job[j] = "queued"
    /\ Cardinality(Running(que)) < MaxWorkers
    /\ que' = [que EXCEPT !.job[j] = "mining"]
    /\ ev' = [NoEv EXCEPT !.op = "start"]
    /\ UNCHANGED << cfg, fs, thread_ident, pools, ttl_cache, cache_running, service,
                    kafka, app, reader, poller, run, ever_cached, live >>

\* extract_data of job j ends, and with it the job: extract_data raises and
\* the job logs the error, or it returns the article and the job builds
\* kafka_article and calls publish_message.  extract_data downloads and
\* parses the url whatever its host is.
Extract(j) ==
    /\ que.job[j] = "mining"
    /\ \E page \in cfg.pages :
         LET x == ExtractData(page, "name")
             q == [que EXCEPT !.parsed = IF page.readable THEN @ \cup {j} ELSE @]
         IN IF x.raised # ""
            THEN /\ que' = [q EXCEPT !.job[j] = "done"]
                 /\ kafka' = kafka
            ELSE LET o == Offer(kafka, j)
                     qa == [q EXCEPT !.article = @ \cup {j},
                                     !.out[j] = KafkaArticle(x.dict)]
                 IN /\ kafka' = o.kafka
                    /\ que' = IF o.result = "blocked"
                              THEN [qa EXCEPT !.job[j] = "offering"]
                              ELSE AfterPublish(qa, j, o.result = "true")
    /\ ev' = [NoEv EXCEPT !.op = "extract"]
    /\ UNCHANGED << cfg, fs, thread_ident, pools, ttl_cache, cache_running, service,
                    app, reader, poller, run, ever_cached, live >>

\* A caller of publish_message with message j gets past its first test, or
\* is sent away by it.
PublishStart(j) ==
    /\ kafka.call[j] = "none"
    /\ kafka' = PublishTest(kafka, j)
    /\ ev' = [NoEv EXCEPT !.op = "publish", !.job = j]
    /\ UNCHANGED << cfg, fs, thread_ident, pools, ttl_cache, cache_running, service,
                    que, app, reader, poller, run, ever_cached, live >>

\* The put of message j: the queue takes it, or the call starts to wait, or
\* its wait ends with queue.Full.
PublishPut(j) ==
    /\ kafka.call[j] \in {"checked", "waiting"}
    /\ kafka' = PutMessage(kafka, j)
    /\ ev' = [NoEv EXCEPT !.op = "put", !.job = j]
    /\ UNCHANGED << cfg, fs, thread_ident, pools, ttl_cache, cache_running, service,
                    que, app, reader, poller, run, ever_cached, live >>

\* Worker thread w gets a message from the queue, passes it to produce() and
\* tests the shutdown event.
WorkerTake(w) ==
    /\ w \in kafka.alive
    /\ kafka.message_queue # << >>
    /\ kafka' = LoopTest(TakeMessage(kafka), w)
    /\ ev' = [NoEv EXCEPT !.op = "produce", !.job = Head(kafka.message_queue)]
    /\ UNCHANGED << cfg, fs, thread_ident, pools, ttl_cache, cache_running, service,
                    que, app, reader, poller, run, ever_cached, live >>

\* The get of worker thread w ends with queue.Empty after the shutdown
\* event was set: the loop ends and the thread flushes its producer.
WorkerExit(w) ==
    /\ w \in kafka.alive
    /\ kafka.message_queue = << >> /\ kafka.shutdown_event
    /\ kafka' = LoopTest(kafka, w)
    /\ ev' = [NoEv EXCEPT !.op = "worker_exit"]
    /\ UNCHANGED << cfg, fs, thread_ident, pools, ttl_cache, cache_running, service,
                    que, app, reader, poller, run, ever_cached, live >>

\* close_all is called on the publisher pool.
ProducersCloseAll ==
    /\ ~kafka.shutdown_event
    /\ kafka' = KafkaCloseAll(kafka)
    /\ ev' = [NoEv EXCEPT !.op = "close_producers"]
    /\ UNCHANGED << cfg, fs, thread_ident, pools, ttl_cache, cache_running, service,
                    que, app, reader, poller, run, ever_cached, live >>

\* The loop of SpiderTaskQue.run finds the event set and ends; __cleanup
\* shuts the thread pool down and waits for its jobs.
DispatcherLeaves ==
    /\ que.thread = "run" /\ que.event
    /\ que' = [que EXCEPT !.thread = "cleanup", !.pool_shutdown = TRUE]
    /\ ev' = [NoEv EXCEPT !.op = "leave"]
    /\ UNCHANGED << cfg, fs, thread_ident, pools, ttl_cache, cache_running, service,
                    kafka, app, reader, poller, run, ever_cached, live >>

\* The jobs have ended: the rest of __cleanup, and the thread ends.
DispatcherExit ==
    /\ que.thread = "cleanup" /\ Unfinished(que) = {}
    /\ que' = [que EXCEPT !.thread = "exited"]
    /\ kafka' = CleanupKafka(kafka)
    /\ ev' = [NoEv EXCEPT !.op = "exit"]
    /\ UNCHANGED << cfg, fs, thread_ident, pools, ttl_cache, cache_running, service,
                    app, reader, poller, run, ever_cached, live >>

(***************************************************************************)
(* App.stop, a coroutine of the event loop of the pollers: none of its     *)
(* steps yields to the loop, so no poller runs before it has returned.     *)
(***************************************************************************)
\* __stop_scraper_task_que: the event is set.
StopSetEvent ==
    /\ app.pc = "running"
    /\ app' = [app EXCEPT !.pc = "que_cleanup"]
    /\ que' = [que EXCEPT !.event = TRUE]
    /\ ev' = [NoEv EXCEPT !.op = "stop_que"]
    /\ UNCHANGED << cfg, fs, thread_ident, pools, ttl_cache, cache_running, service,
                    kafka, reader, poller, run, ever_cached, live >>

\* SpiderTaskQue.join calls __cleanup on the thread of stop(): the thread
\* pool is shut down.
StopQueCleanup ==
    /\ app.pc = "que_cleanup"
    /\ app' = [app EXCEPT !.pc = "que_join"]
    /\ que' = [que EXCEPT !.pool_shutdown = TRUE]
    /\ ev' = [NoEv EXCEPT !.op = "stop_pool"]
    /\ UNCHANGED << cfg, fs, thread_ident, pools, ttl_cache, cache_running, service,
                    kafka, reader, poller, run, ever_cached, live >>

\* The jobs have ended (shutdown(wait=True)) and the thread of the
\* dispatcher has ended (Thread.join): __stop_scraper_task_que returns.
StopQueJoined ==
    /\ app.pc = "que_join"
    /\ Unfinished(que) = {} /\ que.thread = "exited"
    /\ app' = [app EXCEPT !.pc = "cache"]
    /\ kafka' = CleanupKafka(kafka)
    /\ ev' = [NoEv EXCEPT !.op = "stop_joined"]
    /\ UNCHANGED << cfg, fs, thread_ident, pools, ttl_cache, cache_running, service,
                    que, reader, poller, run, ever_cached, live >>

\* CacheServiceManager.join before it waits for the thread: the socket is
\* closed and the context terminated when hasattr finds them.
JoinService(sv) ==
    LET a == IF HasAttr("__socket") /\ sv.socket_open
             THEN [sv EXCEPT !.socket_open = FALSE] ELSE sv
    IN IF HasAttr("__context") /\ a.context_open
       THEN [a EXCEPT !.context_open = FALSE] ELSE a

\* __stop_cache_service_manager: the event is set, join does its clean-up,
\* the loop of the service ends within its poll timeout and join returns.
StopCache ==
    /\ app.pc = "cache"
    /\ app' = [app EXCEPT !.pc = "tasks"]
    /\ cache_running' = FALSE
    /\ service' = JoinService(service)
    /\ ev' = [NoEv EXCEPT !.op = "stop"]
    /\ UNCHANGED << cfg, fs, thread_ident, pools, ttl_cache, kafka, que,
                    reader, poller, run, ever_cached, live >>

\* __destruct_all_tasks cancels every task, __stop_api_server joins the API
\* server and stop() returns.
CancelTasks ==
    /\ app.pc = "tasks"
    /\ app' = [pc |-> "stopped",
               cancelling |-> { p \in cfg.sources : poller[p].pc # "cancelled" }]
    /\ ev' = [NoEv EXCEPT !.op = "cancel_all"]
    /\ UNCHANGED << cfg, fs, thread_ident, pools, ttl_cache, cache_running, service,
                    kafka, que, reader, poller, run, ever_cached, live >>

(***************************************************************************)
(* The pool model: three pollers and one fingerprint, a cache service that *)
(* keeps running.  The spider pool has two permits and room for two        *)
(* handles; the cache pool has either one permit, so that a poller waits   *)
(* for it with the spider handle in its hand, or room for one handle only, *)
(* so that the second poller finds the pool at its limit.                  *)
(***************************************************************************)
PoolConfig(cache_size, cache_users) ==
    [ sources |-> Sources, cycles |-> [s \in Sources |-> MaxCycles], fps |-> {1},
      max_pool_size |-> [spider |-> PoolMaxSize, cache |-> cache_size],
      max_concurrent_users |-> [spider |-> PoolMaxUsers, cache |-> cache_users],
      connection_timeout |-> PoolTimeout,
      idents |-> {9}, ttls |-> {None}, upds |-> {None},
      elapsed |-> {0}, lags |-> {0}, stamps |-> {1},
      https |-> {"ok", "bozo", "error"}, builtin_timeout |-> TRUE,
      msgs |-> {}, jobs |-> {}, records |-> {}, registry |-> {}, pages |-> {},
      data_files |-> {NoFile}, checksum_files |-> {NoFile},
      num_producers |-> {NumProducers}, producers |-> {Producers} ]
PoolConfigs ==
    { PoolConfig(PoolMaxSize, PoolMaxUsers - 1),
      PoolConfig(PoolMaxSize - 1, PoolMaxUsers) }
Init == InitWith(PoolConfigs)
Next ==
    \/ \E p \in cfg.sources : Wake(p)
    \/ \E p \in cfg.sources : Resume(p)
    \/ \E p \in cfg.sources : HttpResponse(p)
    \/ \E p \in cfg.sources : FetchReturn(p)
    \/ \E p \in cfg.sources : Cancel(p)
Spec == Init /\ [][Next]_vars

(***************************************************************************)
(* The pool model with close_all: two pollers, the first of which runs two *)
(* cycles, on a spider pool with room for two handles and a cache pool     *)
(* with room for one, and a caller of close_all on either pool at any      *)
(* moment.                                                                 *)
(***************************************************************************)
CloseSources == 1..NumCloseSources
CloseConfig ==
    [ PoolConfig(PoolMaxSize - 1, PoolMaxUsers) EXCEPT
        !.sources = CloseSources,
        !.cycles = [s \in Sources |-> IF s = 1 THEN MaxCloseCycles
                                      ELSE MaxCloseCycles - 1],
        !.https = {"ok", "error"} ]
CloseInit == InitWith({CloseConfig})
CloseNext ==
    \/ \E p \in cfg.sources : Wake(p)
    \/ \E p \in cfg.sources : HttpResponse(p)
    \/ \E p \in cfg.sources : FetchReturn(p)
    \/ \E n \in PoolNames : CloseAll(n)
CloseSpec == CloseInit /\ [][CloseNext]_vars

(***************************************************************************)
(* The feed model: two pollers that never wait for a handle, feeds that    *)
(* change, a cache whose entries expire and whose service may stop.        *)
(***************************************************************************)
FeedConfig ==
    [ sources |-> FeedSources,
      cycles |-> [s \in Sources |-> IF s = 1 THEN MaxFeedCycles ELSE MaxFeedCycles - 1],
      fps |-> Fps,
      max_pool_size |-> [n \in PoolNames |-> NumFeedSources],
      max_concurrent_users |-> [n \in PoolNames |-> NumFeedSources],
      connection_timeout |-> PoolTimeout,
      idents |-> {9}, ttls |-> {None}, upds |-> {None},
      elapsed |-> {0}, lags |-> {0, 5 * U}, stamps |-> {1},
      https |-> {"ok", "bozo", "error"}, builtin_timeout |-> TRUE,
      msgs |-> {}, jobs |-> {}, records |-> {}, registry |-> {}, pages |-> {},
      data_files |-> {NoFile}, checksum_files |-> {NoFile},
      num_producers |-> {NumProducers}, producers |-> {Producers} ]
FeedInit == InitWith({FeedConfig})
FeedNext ==
    \/ \E p \in cfg.sources : Wake(p)
    \/ \E p \in cfg.sources : HttpResponse(p)
    \/ \E p \in cfg.sources : FetchReturn(p)
    \/ StopCacheService
    \/ ExpireOldest
FeedSpec == FeedInit /\ [][FeedNext]_vars

(***************************************************************************)
(* The schedule model: two pollers on one thread whose identifier ends in  *)
(* 0 or in 9, feeds that declare a ttl of 0, 1 or 15 minutes or none and   *)
(* an update time or none, read 58 s or 420 s after that update time.      *)
(***************************************************************************)
SchedSources == 1..NumSchedSources
SchedConfig ==
    [ sources |-> SchedSources,
      cycles |-> [s \in Sources |-> IF s = 1 THEN MaxSchedCycles
                                               ELSE MaxSchedCycles - 1],
      fps |-> {1},
      max_pool_size |-> [n \in PoolNames |-> NumSchedSources],
      max_concurrent_users |-> [n \in PoolNames |-> NumSchedSources],
      connection_timeout |-> PoolTimeout,
      idents |-> {0, 9}, ttls |-> {None, 0, 1, 15}, upds |-> {None, 1},
      elapsed |-> {58 * U, 420 * U}, lags |-> {0}, stamps |-> {1},
      https |-> {"ok", "bozo", "error"}, builtin_timeout |-> TRUE,
      msgs |-> {}, jobs |-> {}, records |-> {}, registry |-> {}, pages |-> {},
      data_files |-> {NoFile}, checksum_files |-> {NoFile},
      num_producers |-> {NumProducers}, producers |-> {Producers} ]
SchedInit == InitWith({SchedConfig})
SchedNext ==
    \/ \E p \in cfg.sources : Wake(p)
    \/ \E p \in cfg.sources : HttpResponse(p)
    \/ \E p \in cfg.sources : FetchReturn(p)
SchedSpec == SchedInit /\ [][SchedNext]_vars

(***************************************************************************)
(* The error model: two pollers whose requests fail in every way, under a  *)
(* Python where asyncio.TimeoutError is the built-in TimeoutError and      *)
(* under one where it is not; a cache service that may stop; pollers that  *)
(* may be cancelled.                                                       *)
(***************************************************************************)
ErrSources == 1..NumErrSources
ErrConfig(builtin) ==
    [ sources |-> ErrSources,
      cycles |-> [s \in Sources |-> IF s = 1 THEN MaxErrCycles ELSE MaxErrCycles - 1],
      fps |-> {1},
      max_pool_size |-> [n \in PoolNames |-> NumErrSources],
      max_concurrent_users |-> [n \in PoolNames |-> NumErrSources],
      connection_timeout |-> PoolTimeout,
      idents |-> {9}, ttls |-> {None, 15}, upds |-> {None},
      elapsed |-> {0}, lags |-> {0}, stamps |-> {1},
      https |-> {"ok", "bozo", "error", "timeout"}, builtin_timeout |-> builtin,
      msgs |-> {}, jobs |-> {}, records |-> {}, registry |-> {}, pages |-> {},
      data_files |-> {NoFile}, checksum_files |-> {NoFile},
      num_producers |-> {NumProducers}, producers |-> {Producers} ]
ErrInit == InitWith({ErrConfig(TRUE), ErrConfig(FALSE)})
ErrNext ==
    \/ \E p \in cfg.sources : Wake(p)
    \/ \E p \in cfg.sources : HttpResponse(p)
    \/ \E p \in cfg.sources : FetchReturn(p)
    \/ \E p \in cfg.sources : Cancel(p)
    \/ StopCacheService
ErrSpec == ErrInit /\ [][ErrNext]_vars

(***************************************************************************)
(* The publisher model: no poller; records that arrive at the dispatcher, *)
(* extraction jobs on a thread pool of MaxWorkers threads, whose           *)
(* extract_data ends in the TypeError of the Article constructor before    *)
(* anything is published; a publisher pool that was asked for one to       *)
(* NumProducers producers and whose construction created some of them.     *)
(***************************************************************************)
KafkaConfig ==
    [ sources |-> {}, cycles |-> [s \in Sources |-> 0], fps |-> {1},
      max_pool_size |-> [n \in PoolNames |-> PoolMaxSize],
      max_concurrent_users |-> [n \in PoolNames |-> PoolMaxUsers],
      connection_timeout |-> PoolTimeout,
      idents |-> {9}, ttls |-> {None}, upds |-> {None},
      elapsed |-> {0}, lags |-> {0}, stamps |-> {1},
      https |-> {"ok"}, builtin_timeout |-> TRUE,
      msgs |-> {}, jobs |-> Jobs, records |-> {Record(1, "own")}, registry |-> {1},
      pages |-> Pages,
      data_files |-> {NoFile}, checksum_files |-> {NoFile},
      num_producers |-> 1..NumProducers, producers |-> {{}, {1}, {2, 3}, Producers} ]
KafkaInit == InitWith({KafkaConfig})
KafkaNext ==
    \/ \E j \in Jobs : RecordArrives(j)
    \/ \E j \in Jobs : StartJob(j)
    \/ \E j \in Jobs : Extract(j)
KafkaSpec == KafkaInit /\ [][KafkaNext]_vars

(***************************************************************************)
(* The record model: the dispatcher of the publisher model with records of *)
(* a registered source (RecordSources) and of one that is not in the       *)
(* registry (NumRecordSources + 1), whose urls are on the domain of the    *)
(* source or on another host.                                              *)
(***************************************************************************)
RecordSources == 1..NumRecordSources
RecordJobs == 1..NumRecordJobs
RecordConfig ==
    [ KafkaConfig EXCEPT
        !.jobs = RecordJobs,
        !.records = { Record(p, h) : p \in 1..(NumRecordSources + 1),
                                     h \in {"own", "other"} },
        !.registry = RecordSources,
        !.num_producers = {NumProducers}, !.producers = {Producers} ]
RecordInit == InitWith({RecordConfig})
RecordSpec == RecordInit /\ [][KafkaNext]_vars

(***************************************************************************)
(* The publisher pool on its own: callers of publish_message with the      *)
(* messages of Jobs, the worker threads, and a caller of close_all.        *)
(***************************************************************************)
ProducerConfig == [KafkaConfig EXCEPT !.jobs = {}, !.records = {}, !.pages = {}]
ProducerInit == InitWith({ProducerConfig})
ProducerNext ==
    \/ \E j \in Jobs : PublishStart(j)
    \/ \E j \in Jobs : PublishPut(j)
    \/ \E w \in Producers : WorkerTake(w)
    \/ \E w \in Producers : WorkerExit(w)
    \/ ProducersCloseAll
ProducerSpec == ProducerInit /\ [][ProducerNext]_vars

(***************************************************************************)
(* The shutdown model: two pollers, two records for the dispatcher, and    *)
(* stop() called at any moment.                                            *)
(***************************************************************************)
StopSources == 1..NumStopSources
StopJobs == 1..NumStopJobs
StopConfig ==
    [ sources |-> StopSources, cycles |-> [s \in Sources |-> MaxStopCycles],
      fps |-> {1},
      max_pool_size |-> [n \in PoolNames |-> NumStopSources],
      max_concurrent_users |-> [n \in PoolNames |-> NumStopSources],
      connection_timeout |-> PoolTimeout,
      idents |-> {9}, ttls |-> {None}, upds |-> {None},
      elapsed |-> {0}, lags |-> {0}, stamps |-> {1},
      https |-> {"ok"}, builtin_timeout |-> TRUE,
      msgs |-> {}, jobs |-> StopJobs,
      pages |-> { Page(FALSE, << >>, "", << >>), Page(TRUE, << "a" >>, "", << >>) },
      records |-> {Record(1, "own")}, registry |-> StopSources,
      data_files |-> {NoFile}, checksum_files |-> {NoFile},
      num_producers |-> {1}, producers |-> {{1}} ]
ShutdownInit == InitWith({StopConfig})
ShutdownNext ==
    \/ \E p \in cfg.sources : Wake(p)
    \/ \E p \in cfg.sources : HttpResponse(p)
    \/ \E p \in cfg.sources : FetchReturn(p)
    \/ \E j \in Jobs : RecordArrives(j)
    \/ \E j \in Jobs : StartJob(j)
    \/ \E j \in Jobs : Extract(j)
    \/ DispatcherLeaves
    \/ DispatcherExit
    \/ StopSetEvent
    \/ StopQueCleanup
    \/ StopQueJoined
    \/ StopCache
    \/ CancelTasks
    \/ \E p \in cfg.sources : CancelDelivered(p)
ShutdownSpec == ShutdownInit /\ [][ShutdownNext]_vars

(***************************************************************************)
(* The checksum model: check_or_create_checksum called on a data file and  *)
(* a checksum file that the environment creates, changes and removes       *)
(* between the calls.                                                      *)
(***************************************************************************)
\* A call of check_or_create_checksum(data_file_path, checksum_file_path).
CheckChecksum ==
    /\ fs' = CheckOrCreateChecksum(fs)
    /\ ev' = [NoEv EXCEPT !.op = "check"]
    /\ UNCHANGED << cfg, thread_ident, pools, ttl_cache, cache_running, service,
                    kafka, que, app, reader, poller, run, ever_cached, live >>

\* The data file is created, written to or removed.
TouchData ==
    /\ \E d \in cfg.data_files \ {fs.data} : fs' = [fs EXCEPT !.data = d]
    /\ ev' = [NoEv EXCEPT !.op = "touch"]
    /\ UNCHANGED << cfg, thread_ident, pools, ttl_cache, cache_running, service,
                    kafka, que, app, reader, poller, run, ever_cached, live >>

\* Somebody else writes or removes the checksum file.
WriteChecksumFile ==
    /\ \E c \in cfg.checksum_files \ {fs.checksum} : fs' = [fs EXCEPT !.checksum = c]
    /\ ev' = [NoEv EXCEPT !.op = "write"]
    /\ UNCHANGED << cfg, thread_ident, pools, ttl_cache, cache_running, service,
                    kafka, que, app, reader, poller, run, ever_cached, live >>

\* Sizes and modification times of the data file: f"{12}{3.0}" and
\* f"{1}{23.0}" are the same text.
DataSizes == {1, 12}
DataTimes == {3, 23}
DataFiles == {NoFile} \cup { DataFile(sz, mt) : sz \in DataSizes, mt \in DataTimes }
Digests ==
    { GenerateChecksum(d) : d \in DataFiles \ {NoFile} } \cup {"sha256:fake_checksum"}
ChecksumFiles ==
    {NoFile, ChecksumFile(<< >>), ChecksumFile(<< White >>)}
      \cup { ChecksumFile(<< g >>) : g \in Digests }
      \cup { ChecksumFile(<< g, White >>) : g \in Digests }
      \cup { ChecksumFile(<< White, g, White >>) : g \in Digests }
      \cup { ChecksumFile(<< g, White, g >>) : g \in Digests }
ChecksumConfig ==
    [ KafkaConfig EXCEPT !.jobs = {}, !.records = {}, !.registry = {}, !.pages = {},
                         !.num_producers = {NumProducers}, !.producers = {Producers},
                         !.data_files = DataFiles,
                         !.checksum_files = ChecksumFiles ]
ChecksumInit == InitWith({ChecksumConfig})
ChecksumNext ==
    \/ CheckChecksum
    \/ TouchData
    \/ WriteChecksumFile
ChecksumSpec == ChecksumInit /\ [][ChecksumNext]_vars

(***************************************************************************)
(* The cache model: no poller; clients that send the service every kind of *)
(* message, well-formed or not, on more keys than the cache has room for;  *)
(* entries that expire; a service that may stop.                           *)
(***************************************************************************)
Values == 1..NumValues
CacheMsgs ==
    LET keys == Keys \cup {Missing, Unhashable}
    IN { GetMsg(k) : k \in keys }
         \cup { SetMsg(k, v) : k \in keys, v \in Values \cup {Missing} }
         \cup { Msg("dict", "missing", 1, 1), Msg("dict", "delete", 1, 1),
                Msg("list", "missing", Missing, Missing),
                Msg("garbage", "missing", Missing, Missing) }
CacheConfig ==
    [ sources |-> {}, cycles |-> [s \in Sources |-> 0], fps |-> Keys,
      max_pool_size |-> [n \in PoolNames |-> PoolMaxSize],
      max_concurrent_users |-> [n \in PoolNames |-> PoolMaxUsers],
      connection_timeout |-> PoolTimeout,
      idents |-> {9}, ttls |-> {None}, upds |-> {None},
      elapsed |-> {0}, lags |-> {0}, stamps |-> Values,
      https |-> {"ok"}, builtin_timeout |-> TRUE,
      msgs |-> CacheMsgs, jobs |-> {}, records |-> {}, registry |-> {},
      pages |-> {},
      data_files |-> {NoFile}, checksum_files |-> {NoFile},
      num_producers |-> {NumProducers}, producers |-> {Producers} ]
CacheInit == InitWith({CacheConfig})
CacheNext ==
    \/ ClientRequest
    \/ ExpireOldest
    \/ StopCacheService
CacheSpec == CacheInit /\ [][CacheNext]_vars

(***************************************************************************)
(* Properties of the pools.                                                *)
(***************************************************************************)
\* The handle poller p holds of pool n, and who holds what.
Held(p, n) == IF n = "spider" THEN poller[p].spider_sock ELSE poller[p].cache_sock
Borrowers(n) == { p \in Sources : Held(p, n) # NoSock }
Holders(n, h) == { p \in Sources : Held(p, n) = h }
Created(n) == 1..Len(pools[n].socket_endpoints)
LiveSockets(n) == Created(n) \ pools[n].closed
AvailableCount(n, h) ==
    Cardinality({ i \in 1..Len(pools[n].available_sockets) :
                    pools[n].available_sockets[i] = h })

\* C5: in every reachable state of a pool, the handles borrowed plus the
\* handles available are at most max_pool_size, the handles borrowed are at
\* most max_concurrent_users, in_use_count is the number of handles borrowed,
\* and the sockets the pool has created and not closed are at most
\* max_pool_size.
C5_PoolBounds ==
    \A n \in PoolNames :
      LET borrowed == Cardinality(Borrowers(n))
      IN /\ pools[n].in_use_count = borrowed
         /\ borrowed + Len(pools[n].available_sockets) <= pools[n].max_pool_size
         /\ borrowed <= pools[n].max_concurrent_users
         /\ Cardinality(LiveSockets(n)) <= pools[n].max_pool_size
\* A pool is full: one handle is borrowed, the other has come back.
C5_Witness ==
    \E n \in PoolNames :
      /\ Borrowers(n) # {}
      /\ pools[n].available_sockets # << >>
      /\ Cardinality(Borrowers(n)) + Len(pools[n].available_sockets)
           = pools[n].max_pool_size

\* C6: every socket of a pool has exactly one owner: it is once in the list
\* of available sockets or in the hand of one poller, never both and never
\* in two hands; a closed socket has no owner; and the handle a FeedReader
\* sends its cache requests on is the one its own poller holds.
C6_OneOwner ==
    /\ \A n \in PoolNames :
         /\ \A h \in LiveSockets(n) :
              AvailableCount(n, h) + Cardinality(Holders(n, h)) = 1
         /\ \A h \in pools[n].closed :
              AvailableCount(n, h) + Cardinality(Holders(n, h)) = 0
    /\ \A p \in Sources :
         poller[p].pc = "http" =>
           /\ poller[p].cache_sock # NoSock
           /\ reader[p].cache_service_socket = poller[p].cache_sock
\* A handle has passed from one poller to the next: q holds, in the middle of
\* its fetch, the handle the reader of p was given before.
C6_Witness ==
    \E p, q \in Sources :
      /\ p # q
      /\ poller[q].pc = "http"
      /\ reader[p].cache_service_socket = poller[q].cache_sock

\* C7: a poller that sleeps between two cycles or has been cancelled holds
\* no handle, and every permit and every handle that is out of a pool is in
\* the hand of a poller in the middle of its cycle: whatever way a cycle
\* ended, the finally clause gave back what the cycle had borrowed.
C7_HandlesReturned ==
    /\ \A p \in Sources :
         poller[p].pc \in {"sleep", "cancelled", "wait_spider"} =>
           (poller[p].spider_sock = NoSock /\ poller[p].cache_sock = NoSock)
    /\ \A n \in PoolNames :
         /\ pools[n].semaphore + Cardinality(Borrowers(n))
              = pools[n].max_concurrent_users
         /\ pools[n].in_use_count = Cardinality(Borrowers(n))
         /\ \A h \in LiveSockets(n) :
              Holders(n, h) = {} => AvailableCount(n, h) = 1
\* The exit paths together: p was cancelled in its first cycle with both
\* handles in its hand, q has just given up on the cache pool with the
\* spider handle in its hand, r has ended a cycle at the sleep, and all the
\* handles and permits are back.
C7_Witness ==
    /\ ev.op = "cycle" /\ ev.timeout = "cache"
    /\ \E p, r \in Sources :
         /\ poller[p].pc = "cancelled" /\ poller[p].cycles = 0
         /\ reader[p].cache_service_socket # NoSock
         /\ poller[r].pc = "sleep" /\ reader[r].feed_last_refresh_on # None
    /\ \A n \in PoolNames : pools[n].semaphore = pools[n].max_concurrent_users

\* C8: when a poller has waited connection_timeout seconds for a permit of
\* a pool and none became free, the acquisition fails and leaves that pool
\* as it was; the poller does not fetch, asks the cache nothing and pushes
\* nothing, sets refresh_time to min(refresh_time * 1.5, 300) and goes to
\* sleep for the next cycle.
C8_TimedOut(p) ==
    /\ poller[p].pc \in {"wait_spider", "wait_cache"}
    /\ poller[p].tries >= cfg.connection_timeout
    /\ poller'[p] # poller[p]
    /\ poller'[p].pc # "cancelled"
C8_PoolTimeout ==
    [][ \A p \in Sources :
          C8_TimedOut(p) =>
            LET n == IF poller[p].pc = "wait_spider" THEN "spider" ELSE "cache"
            IN /\ pools'[n] = pools[n]
               /\ ttl_cache' = ttl_cache
               /\ reader'[p].feed = reader[p].feed
               /\ reader'[p].has_updated_since_last_request
                    = reader[p].has_updated_since_last_request
               /\ ev'.requests = 0 /\ ~ev'.returned /\ ~ev'.pushed
               /\ poller'[p].pc = "sleep"
               /\ poller'[p].refresh_time * 2
                    = Min(poller[p].refresh_time * 3, 2 * TimeoutBackoffCap)
               /\ poller'[p].sleep_for >= MinSleep ]_vars
\* A poller sleeps after the time for a permit of the spider pool ran out,
\* with refresh_time raised from 10 s to 15 s.
C8_Witness ==
    /\ ev.op = "cycle" /\ ev.timeout = "spider"
    /\ poller[ev.src].pc = "sleep"
    /\ poller[ev.src].refresh_time = 15 * U

\* C29 as stated: when close_all has run on a pool, every handle of the
\* pool is closed, those that were available and those that are borrowed,
\* and in_use_count is 0; so no handle of the pool is open any more.
C29_Original ==
    [][ \A n \in PoolNames :
          (ev'.op = "close_all" /\ ev'.pool = n) =>
             /\ LiveSockets(n)' = {}
             /\ pools'[n].available_sockets = << >>
             /\ pools'[n].in_use_count = 0 ]_vars

\* C30: return_socket(h) appends h to the list of available sockets,
\* takes one from in_use_count and frees one permit; when the list held
\* max_pool_size handles it first closes the oldest of them, forgets its
\* endpoint and drops it from the list; and the list never holds more than
\* max_pool_size handles.
C30_Return ==
    /\ [](\A n \in PoolNames :
            Len(pools[n].available_sockets) <= pools[n].max_pool_size)
    /\ [][ \A p \in Sources : \A n \in PoolNames :
             (Held(p, n) # NoSock /\ Held(p, n)' = NoSock) =>
               LET h == Held(p, n)
                   av == pools[n].available_sockets
                   full == Len(av) >= pools[n].max_pool_size
               IN /\ pools'[n].available_sockets =
                        Append(IF full THEN Tail(av) ELSE av, h)
                  /\ pools'[n].in_use_count = pools[n].in_use_count - 1
                  /\ pools'[n].semaphore = pools[n].semaphore + 1
                  /\ pools'[n].closed =
                        pools[n].closed \cup (IF full THEN {Head(av)} ELSE {})
                  /\ full => pools'[n].socket_endpoints[Head(av)] = ""
        ]_vars
\* A return has found the list of the cache pool full and closed the
\* oldest handle: the list holds the returned handle alone.
C30_Witness ==
    /\ ev.op = "return" /\ ev.evicted
    /\ pools.cache.closed # {}
    /\ Len(pools.cache.available_sockets) = pools.cache.max_pool_size
    /\ poller[ev.src].cache_sock = NoSock

(***************************************************************************)
(* Properties of the FeedReader and the dedup cache.                       *)
(***************************************************************************)
\* C1: while the first entry of a source's feed keeps the fingerprint F that
\* the cache had never held when the source first asked about it, exactly one
\* of the snapshots get_feed has returned since then has
\* has_updated_since_last_request = true, however many there are.
C1_ExactlyOneTrue ==
    \A s \in Sources :
      (run[s].fresh = "yes" /\ run[s].returned >= 1) => run[s].trues = 1
\* A second get_feed of such a source has just returned, with the flag false.
C1_Witness ==
    /\ ev.returned /\ ~ev.flag
    /\ run[ev.src].fresh = "yes"
    /\ run[ev.src].trues = 1
    /\ poller[ev.src].cycles >= 2

\* C2: from the moment the cache holds no entry for a fingerprint F on, at
\* most one fetch_feed of all pollers takes the novelty branch for F; a
\* source gets a snapshot with the flag set only for a fingerprint for which
\* its own fetch took the novelty branch, and at most once; and a record is
\* pushed only for such a snapshot, for the fingerprint it shows.
C2_AtMostOneNovelty ==
    /\ \A f \in Fps : live[f] <= 1
    /\ \A s \in Sources : run[s].trues <= (IF run[s].novel THEN 1 ELSE 0)
    /\ ev.pushed => (ev.flag /\ reader[ev.src].feed.fp = run[ev.src].fp)
\* Two sources have fetched a feed with the same first entry while its cache
\* entry was live; one of them took the novelty branch, the other did not.
C2_Witness ==
    \E p, q \in Sources : \E f \in Fps :
      /\ p # q
      /\ f \in CacheKeys(ttl_cache) /\ live[f] = 1
      /\ reader[p].feed.fp = f /\ reader[q].feed.fp = f
      /\ reader[p].last_feed_item_hash = f
      /\ reader[q].last_feed_item_hash # f

\* A fetch_feed of p that got as far as the fingerprint, which is the one of
\* p's fetch before.
C3_SameAgain(p) ==
    /\ poller[p].pc = "http" /\ poller'[p].pc = "closing"
    /\ ev'.requests >= 1
    /\ run[p].fp # NoHash
    /\ run'[p].fp = run[p].fp
\* C3 as stated: when fetch_feed runs twice on a feed whose first entry has
\* the same fingerprint both times, the second call sends no set request.
C3_Original ==
    [][ \A p \in Sources : C3_SameAgain(p) => ev'.requests < 2 ]_vars
\* C3 as amended: when fetch_feed runs again on a feed whose first entry has
\* the fingerprint F it had before, and a call since the fingerprint became
\* F took the novelty branch, the call sends no set request, whatever became
\* of that set and whatever the cache holds.
C3_NoSetAfterNovelty ==
    [][ \A p \in Sources :
          (C3_SameAgain(p) /\ run[p].novel) => ev'.requests < 2 ]_vars
\* A later fetch of a source that took the novelty branch for F has asked a
\* running cache service about F, whose entry has gone, and sent no set.
C3_Witness ==
    /\ ev.op = "fetch" /\ ev.requests = 1
    /\ cache_running
    /\ run[ev.src].novel
    /\ run[ev.src].fp \notin CacheKeys(ttl_cache)

\* C4: get_feed goes to fetch_feed only when feed_last_refresh_on is None or
\* min_refresh_interval old; a get_feed at the start of a cycle that finds it
\* younger makes no HTTP request, sends the cache nothing and returns a
\* snapshot whose flag is false; and after every get_feed that returned a
\* snapshot the flag of the reader is false.
C4_GetFeed ==
    [][ \A p \in Sources :
          /\ (poller[p].pc = "sleep" /\ poller'[p].pc = "http") =>
                \/ reader[p].feed_last_refresh_on = None
                \/ reader[p].feed_last_refresh_on >= reader[p].min_refresh_interval
          /\ ( /\ poller[p].pc = "sleep" /\ poller'[p] # poller[p]
               /\ ev'.timeout = ""
               /\ reader[p].feed_last_refresh_on # None
               /\ reader[p].feed_last_refresh_on < reader[p].min_refresh_interval ) =>
                /\ poller'[p].pc = "sleep"
                /\ ttl_cache' = ttl_cache
                /\ ev'.requests = 0
                /\ ev'.returned /\ ~ev'.flag
                /\ reader'[p].feed = reader[p].feed
          /\ (ev'.returned /\ ev'.src = p) =>
                ~reader'[p].has_updated_since_last_request ]_vars
\* A cycle has run from its start to its sleep without a fetch: its
\* get_feed returned the feed of the cycle before.
C4_Witness ==
    /\ ev.op = "cycle" /\ ev.returned /\ ~ev.flag
    /\ reader[ev.src].feed.fp # NoHash
    /\ poller[ev.src].cycles = 2

Flag(p) == reader[p].has_updated_since_last_request
LastHash(p) == reader[p].last_feed_item_hash
\* C28: the flag of a reader becomes true only in the step of fetch_feed
\* that records a new last_feed_item_hash, and that step finds the flag
\* false; the flag becomes false only in a get_feed that returns, which
\* reports the true value in its snapshot, and every get_feed that returns
\* leaves the flag false, so that each true value is reported and cleared
\* once; and only steps of the source's own poller change the flag or the
\* fingerprint.
C28_Flag ==
    [][ \A p \in Sources :
          /\ (~Flag(p) /\ Flag(p)') =>
                (ev'.op = "fetch" /\ ev'.src = p /\ LastHash(p)' # LastHash(p))
          /\ (LastHash(p)' # LastHash(p)) => (~Flag(p) /\ Flag(p)')
          /\ (Flag(p) /\ ~Flag(p)') =>
                (ev'.returned /\ ev'.src = p /\ ev'.flag)
          /\ (ev'.returned /\ ev'.src = p) => (~Flag(p)' /\ ev'.flag = Flag(p))
          /\ (Flag(p)' # Flag(p) \/ LastHash(p)' # LastHash(p)) => ev'.src = p
      ]_vars
\* The second true value of a reader's flag has been cleared: the first
\* entry of its feed changed between its two cycles, and the get_feed of
\* each cycle returned the flag true and cleared it.
C28_Witness ==
    /\ ev.op = "return" /\ ev.returned /\ ev.flag
    /\ ~Flag(ev.src)
    /\ poller[ev.src].cycles = 2
    /\ LastHash(ev.src) = reader[ev.src].feed.fp
    /\ \E f \in CacheKeys(ttl_cache) : f # LastHash(ev.src)

(***************************************************************************)
(* Properties of the schedule.                                             *)
(***************************************************************************)
\* A cycle of p has ended in this step without an exception, its get_feed
\* having returned a snapshot.
C9_Success(p) == ev'.op \in {"cycle", "return"} /\ ev'.src = p
                 /\ ev'.returned /\ ~ev'.error
\* What the jitter adds: the sleep less refresh_time.
C9_Late(p) == poller'[p].sleep_for - poller'[p].refresh_time
\* The ttl adaptation of C9: after a successful cycle on a feed that declares
\* ttl = T with a known update time, refresh_time is
\* 60T - ((now - t0) mod 60T) + feed_refresh_buffer, and after one on a feed
\* without ttl it is what it was.
C9_Formula(p) ==
    LET fd == reader'[p].feed
        r == poller'[p].refresh_time
    IN /\ (fd.ttl # None /\ reader'[p].feed_last_updated_on # None) =>
            r = fd.ttl * 60 * U - (ev'.elapsed % (fd.ttl * 60 * U)) + FeedRefreshBuffer
       /\ fd.ttl = None => r = poller[p].refresh_time
\* C9 as stated: the adaptation, and the sleep that follows ends at the
\* instant now + refresh_time = t0 + k*60T + buffer plus at most the jitter.
C9_Original ==
    [][ \A p \in Sources :
          C9_Success(p) =>
            /\ C9_Formula(p)
            /\ (reader'[p].feed.ttl # None /\ reader'[p].feed_last_updated_on # None) =>
                 /\ 0 <= C9_Late(p)
                 /\ C9_Late(p) * 100 <= poller'[p].refresh_time * (thread_ident % 10)
      ]_vars
\* C9 as amended: the adaptation, and the sleep that follows ends at the
\* instant t0 + k*60T + buffer plus the jitter or, when refresh_time plus
\* the jitter is less than 10 s, 10 s after the cycle, which is later than
\* that instant by less than 10 s - feed_refresh_buffer.
C9_Adaptation ==
    [][ \A p \in Sources :
          C9_Success(p) =>
            /\ C9_Formula(p)
            /\ (reader'[p].feed.ttl # None /\ reader'[p].feed_last_updated_on # None) =>
                 \/ C9_Late(p) * 100 = poller'[p].refresh_time * (thread_ident % 10)
                 \/ /\ poller'[p].sleep_for = MinSleep
                    /\ 0 < C9_Late(p)
                    /\ C9_Late(p) < MinSleep - FeedRefreshBuffer
      ]_vars
\* The example: ttl = 15, read 420 s after the update time, gives 485 s.
C9_Witness ==
    /\ ev.returned /\ ~ev.error
    /\ reader[ev.src].feed.ttl = 15
    /\ reader[ev.src].feed_last_updated_on # None
    /\ ev.elapsed = 420 * U
    /\ poller[ev.src].refresh_time = 485 * U

\* C10 as stated: every sleep between two cycles lasts at least 10 s, and
\* when it lasts longer it is refresh_time plus a jitter with
\* 0 <= jitter < 0.1 * refresh_time; and two pollers that sleep at the same
\* time with the same refresh_time have different jitters.
C10_Asleep(p) == p \in cfg.sources /\ poller[p].pc = "sleep" /\ poller[p].cycles >= 1
C10_Original ==
    /\ \A p \in Sources :
         C10_Asleep(p) =>
           LET r == poller[p].refresh_time
               j == poller[p].sleep_for - r
           IN /\ poller[p].sleep_for >= MinSleep
              /\ poller[p].sleep_for > MinSleep => (0 <= j /\ j * 10 < r)
    /\ \A p, q \in Sources :
         ( /\ p # q /\ C10_Asleep(p) /\ C10_Asleep(q)
           /\ poller[p].refresh_time = poller[q].refresh_time
           /\ poller[p].sleep_for > MinSleep ) =>
           poller[p].sleep_for # poller[q].sleep_for

(***************************************************************************)
(* Properties of the error handling of a cycle.                            *)
(***************************************************************************)
\* The cycle of p ends in this step after fetch_feed raised.
C11_FetchFailed(p) ==
    /\ poller[p].pc = "closing" /\ poller[p].exc # ""
    /\ poller'[p] # poller[p]
    /\ poller'[p].pc # "cancelled"
\* C11 as stated: whatever is raised inside a poll cycle (a failed fetch, a
\* malformed feed, a cache error, a failed push), the poller sets
\* refresh_time to min(refresh_time * 2, 600) and goes to sleep for its next
\* cycle; a poller task ends only when it is cancelled; and the step in which
\* one poller handles its error changes no other poller.
C11_Original ==
    [][ \A p \in Sources :
          /\ C11_FetchFailed(p) =>
                /\ poller'[p].pc = "sleep"
                /\ poller'[p].refresh_time
                     = Min(2 * poller[p].refresh_time, ErrorBackoffCap)
                /\ ev'.error
                /\ \A q \in Sources \ {p} : poller'[q] = poller[q]
          /\ (ev'.src = p /\ ev'.returned /\ ev'.flag /\ ~ev'.pushed) =>
                /\ poller'[p].pc = "sleep"
                /\ ev'.error
                /\ \A q \in Sources \ {p} : poller'[q] = poller[q]
          /\ (poller'[p].pc = "cancelled" /\ poller[p].pc # "cancelled") =>
                ev'.op = "cancel"
      ]_vars

\* The fetch_feed of p gets, from a running cache service, the answer about
\* the fingerprint for which the push of p's record failed.
C12_FetchAfterFailedPush(p) ==
    /\ run[p].unsent
    /\ poller[p].pc = "http" /\ poller'[p].pc = "closing"
    /\ cache_running /\ ev'.requests >= 1
    /\ run'[p].fp = run[p].fp
\* C12 as stated: when a poller observed novelty for fingerprint F and the
\* push of its record failed, the source's next fetch of a feed that still
\* shows F observes novelty for F again (the flag of the reader is set, so
\* that the cycle pushes the record): the novelty is not lost.
C12_Original ==
    [][ \A p \in Sources :
          C12_FetchAfterFailedPush(p) =>
            reader'[p].has_updated_since_last_request ]_vars

\* C13: when, in the fetch of a cycle, the reply of the cache service to the
\* get request did not come in time, or the set request did not bring a
\* reply with status success, the cycle returns no snapshot
\* and pushes no record: it ends in the handler of Exception, which logs the
\* error, and the poller goes to sleep.
C13_CacheFault ==
    [][ \A p \in Sources :
          ( /\ poller[p].pc = "closing" /\ poller[p].fault
            /\ poller'[p] # poller[p]
            /\ poller'[p].pc # "cancelled" ) =>
            /\ ~ev'.pushed /\ ~ev'.returned
            /\ ev'.error
            /\ poller'[p].pc = "sleep" ]_vars
\* A cycle has ended in the handler of Exception after the set request of
\* its novelty branch brought no success: the flag of the reader is set, the
\* cache holds no entry for the fingerprint and nothing was pushed.
C13_Witness ==
    /\ ev.op = "return" /\ ev.error /\ ~ev.pushed /\ ~ev.returned
    /\ reader[ev.src].has_updated_since_last_request
    /\ reader[ev.src].last_feed_item_hash # NoHash
    /\ reader[ev.src].last_feed_item_hash \notin CacheKeys(ttl_cache)

(***************************************************************************)
(* Properties of the cache service.                                        *)
(***************************************************************************)
\* A well-formed get or set: a JSON object with its action and a key that
\* can be stored, and for a set its value.
WellFormed(msg) ==
    /\ msg.kind = "dict" /\ msg.key \in Keys
    /\ \/ msg.action = "get"
       \/ msg.action = "set" /\ msg.value \in Values
\* C14: the service answers `get K` with status success and the value of the
\* latest `set K`, when the lifetime that set started has not ended and the
\* entry was not evicted for capacity, and with status success and "NA"
\* otherwise; it answers every well-formed set with status success; and the
\* entries expire in the order of their latest set.
C14_GetSet ==
    LET m == service.request
    IN /\ (ev.op = "request" /\ WellFormed(m) /\ m.action = "get") =>
            service.reply = Success(service.latest[m.key])
       /\ (ev.op = "request" /\ WellFormed(m) /\ m.action = "set") =>
            /\ service.reply.status = "success"
            /\ service.latest[m.key] = m.value
       /\ \A k \in Keys : service.latest[k] # NA <=> k \in CacheKeys(ttl_cache)
       /\ [i \in 1..Len(ttl_cache.root) |-> ttl_cache.root[i].key] = service.set_order
\* A get has been answered with the value of the latest set of its key, in a
\* cache that is full and has lost an entry before; the key is not the one
\* set last.
C14_Witness ==
    /\ ev.op = "request"
    /\ service.request.action = "get" /\ WellFormed(service.request)
    /\ service.reply.value = NumValues
    /\ Len(ttl_cache.root) = CacheMaxSize
    /\ Cardinality(ever_cached) > CacheMaxSize
    /\ ttl_cache.root[Len(ttl_cache.root)].key # service.request.key

\* The handling of msg raises: it is no JSON, or a JSON object without
\* action, a get or set without key or with a key that cannot be hashed, or
\* a set without value.
C15_Raises(msg) ==
    \/ msg.kind = "garbage"
    \/ /\ msg.kind = "dict"
       /\ \/ msg.action = "missing"
          \/ msg.action \in {"get", "set"} /\ msg.key \in {Missing, Unhashable}
          \/ msg.action = "set" /\ msg.value = Missing
\* C15: when the handling of a request raises, the service logs the error
\* and answers the request with status failed, and its REP socket is ready
\* for the next request; the loop of the service ends only when its event is
\* set, never because of a request.
C15_ErrorAnswered ==
    [][ /\ (ev'.op = "request" /\ C15_Raises(service'.request)) =>
             /\ service'.logged
             /\ service'.reply.status = "failed"
             /\ ~service'.owes_reply
             /\ cache_running'
        /\ (cache_running /\ ~cache_running') => ev'.op = "stop" ]_vars
\* A service that holds entries of earlier requests has just answered a
\* message without action with status failed, and can take the next one.
C15_Witness ==
    /\ ev.op = "request"
    /\ service.request.kind = "dict" /\ service.request.action = "missing"
    /\ service.reply.status = "failed" /\ service.logged
    /\ ~service.owes_reply /\ cache_running
    /\ ttl_cache.root # << >>

\* C31 as stated: when a set of a key the cache does not hold arrives while
\* the cache holds its capacity of entries, the entry that goes is the one
\* stored earliest, the first to expire; and a get leaves the order in
\* which the entries expire, and every value, as they are.
C31_Original ==
    [][ ev'.op = "request" =>
          LET m == service'.request
          IN /\ ( /\ WellFormed(m) /\ m.action = "set"
                  /\ m.key \notin CacheKeys(ttl_cache)
                  /\ Len(ttl_cache.root) = CacheMaxSize ) =>
                  CacheKeys(ttl_cache) \ CacheKeys(ttl_cache')
                     = {Head(ttl_cache.root).key}
             /\ (WellFormed(m) /\ m.action = "get") =>
                  ttl_cache'.root = ttl_cache.root ]_vars

(***************************************************************************)
(* Shutdown.                                                               *)
(***************************************************************************)
\* stop() has cancelled the task of p, or the task has ended.
TaskCancelled(p) == poller[p].pc = "cancelled" \/ p \in app.cancelling
\* C16: on shutdown all poller tasks are cancelled first, then the
\* dispatcher is stopped, then the cache service: once the dispatcher has
\* been told to stop, or the cache service has stopped, every poller task
\* has been cancelled, and the cache service stops after the dispatcher.
C16_Original ==
    /\ (que.event \/ ~cache_running) => \A p \in cfg.sources : TaskCancelled(p)
    /\ ~cache_running => que.thread = "exited"

\* C17: after stop() a final state is reached in which every poller task
\* has exited, every handle of both socket pools is closed, the queue of the
\* publisher pool is empty and the thread of the cache service has exited.
\* Here: every state after stop() in which no step is left is such a state.
C17_Original ==
    (app.pc = "stopped" /\ ~ENABLED ShutdownNext) =>
        /\ \A p \in cfg.sources : poller[p].pc = "cancelled"
        /\ \A n \in PoolNames : LiveSockets(n) = {}
        /\ kafka.message_queue = << >>
        /\ ~cache_running

(***************************************************************************)
(* The publisher pool.                                                     *)
(***************************************************************************)
\* How often the article of job j is in the queue of the publisher pool.
InQueue(j) ==
    Cardinality({ i \in 1..Len(kafka.message_queue) : kafka.message_queue[i] = j })
\* Where the article of job j has gone: queue, produce() calls and rows of
\* the table sink.
Placed(j) == InQueue(j) + kafka.produced[j] + que.sink[j]
\* C18: when the queue stays full for the timeout of the put,
\* publish_message returns false without enqueuing and the job writes the
\* article to the table sink; every article an extraction job produced
\* reaches a call of produce() or the table sink.  Here: the article of
\* every job that has ended and whose page newspaper downloaded and parsed
\* is in the queue, in a call of produce() or in the table sink.
C18_Original ==
    \A j \in que.parsed : que.job[j] = "done" => Placed(j) >= 1

\* C19: a publisher pool whose construction created no producer is in the
\* fallback mode for its whole life, and one that created a producer is not;
\* in the fallback mode publish_message returns false and leaves the queue
\* alone, and the job of every article has then written exactly one row for
\* it to the table sink.
C19_Original ==
    /\ kafka.fallback_mode <=> kafka.producers = {}
    /\ kafka.fallback_mode =>
          /\ kafka.message_queue = << >>
          /\ \A j \in que.parsed : que.job[j] = "done" => que.sink[j] = 1

\* C20: on shutdown of the dispatcher the publisher pool is drained: the
\* drain is signalled, the queue becomes empty, each producer is flushed and
\* then the worker threads are joined.  So once the thread of the dispatcher
\* has ended, the shutdown event of the pool is set, its queue is empty and
\* its worker threads have stopped.
C20_Original ==
    que.thread = "exited" =>
        /\ kafka.shutdown_event
        /\ kafka.message_queue = << >>
        /\ kafka.worker_threads = {}

\* C21: at every instant the extraction jobs that run concurrently are at
\* most the threads of the extraction pool, and the worker threads of the
\* publisher pool are at most min(num_producers, __MAX_PRODUCERS), however
\* many records have arrived.
C21_Bounded ==
    /\ Cardinality(Running(que)) <= MaxWorkers
    /\ Cardinality(kafka.worker_threads) <=
           IF kafka.num_producers < MaxProducers THEN kafka.num_producers
           ELSE MaxProducers
\* Every thread of the extraction pool runs a job while another record
\* waits, in a publisher pool that was asked for more producers than
\* __MAX_PRODUCERS and has that many worker threads.
C21_Witness ==
    /\ Cardinality(Running(que)) = MaxWorkers
    /\ \E j \in Jobs : que.job[j] = "queued"
    /\ kafka.num_producers > MaxProducers
    /\ Cardinality(kafka.worker_threads) = MaxProducers

\* C22: while every thread of the extraction pool is busy the dispatcher
\* takes no record from its PULL socket, so the jobs received and not yet
\* started stay bounded and the pushes of the pollers back up.  Here: no
\* record is received in a state where MaxWorkers jobs run.
C22_Original ==
    [][ Cardinality(Running(que)) = MaxWorkers => ev'.op # "record" ]_vars

(***************************************************************************)
(* The records of the dispatcher.                                          *)
(***************************************************************************)
\* C23: a record whose source_id is not in the registry is logged and
\* discarded: no extraction job runs for it, nothing of it is published or
\* written to the table sink, and the dispatcher goes on receiving.
C23_Discarded ==
    \A j \in Jobs :
        (que.job[j] # "none" /\ que.record[j].source_id \notin cfg.registry) =>
            /\ que.job[j] = "discarded" /\ j \in que.logged
            /\ j \notin que.article
            /\ Placed(j) = 0
            /\ que.thread = "run"
\* After the record of an unknown source was discarded, the dispatcher has
\* just received the record of a registered source and submitted its job.
C23_Witness ==
    /\ ev.op = "record"
    /\ ev.job \in Jobs /\ que.job[ev.job] = "queued"
    /\ \E j \in Jobs \ {ev.job} :
          /\ que.record[j].source_id \notin cfg.registry
          /\ que.job[j] = "discarded" /\ j \in que.logged

C25_Original ==
    \A j \in que.parsed :
        que.job[j] = "done" =>
            /\ que.out[j] # NoArticle
            /\ \A k \in DOMAIN que.out[j] :
                  /\ que.out[j][k].kind = "str"
                  /\ Len(que.out[j][k].val) = 1
            /\ que.out[j]["id"] = PyStr("oid")
            /\ que.out[j]["source"] = PyStr("name")

(***************************************************************************)
(* The checksum validator.                                                 *)
(***************************************************************************)
\* The checksum file exists and holds the checksum of the data file,
\* surrounding whitespace aside.
HoldsChecksum(f) ==
    /\ f.checksum.exists
    /\ \E before, after \in {<< >>, << White >>} :
          f.checksum.content = before \o << GenerateChecksum(f.data) >> \o after
\* C26: check_or_create_checksum returns True iff the checksum file exists
\* and holds generate_checksum(data), and otherwise returns False and writes
\* the file; after every call on an existing data file the checksum file
\* holds the current checksum, so that a second call on the unchanged data
\* file returns True; on a missing data file it raises FileNotFoundError and
\* writes nothing.
C26_Checksum ==
    [][ ev'.op = "check" =>
          IF fs.data.exists
          THEN /\ fs'.result = IF HoldsChecksum(fs) THEN "True" ELSE "False"
               /\ fs'.result = "True" => fs'.checksum = fs.checksum
               /\ fs'.result = "False" =>
                     fs'.checksum = ChecksumFile(<< GenerateChecksum(fs.data) >>)
               /\ HoldsChecksum(fs')
               /\ ev.op = "check" => fs'.result = "True"
          ELSE /\ fs'.result = "FileNotFoundError"
               /\ fs'.checksum = fs.checksum ]_vars
\* The second of two calls on an unchanged data file has just returned True,
\* for a checksum file that the first call wrote.
C26_Witness ==
    /\ ev.op = "check" /\ fs.result = "True" /\ fs.data.exists
    /\ fs.checksum = ChecksumFile(<< GenerateChecksum(fs.data) >>)

\* C32 as stated: when the join() of the cache service has returned, the
\* loop of the service has ended, its REP socket has been closed and its
\* context terminated.
C32_Original ==
    app.pc \in {"tasks", "stopped"} =>
      /\ ~cache_running
      /\ ~service.socket_open
      /\ ~service.context_open

\* A publish_message is between its first test and its return.
Publishing(j) == kafka.call[j] \in {"checked", "waiting"}
\* C33 as stated: a message is passed to produce() at most once, and only
\* when its publish_message returned True; and once every worker thread has
\* ended and no publish_message is under way, every message whose
\* publish_message returned True has been passed to produce(): none is left
\* in the queue.
C33_Original ==
    /\ \A j \in Jobs : kafka.produced[j] <= 1
    /\ \A j \in Jobs : kafka.produced[j] = 1 => kafka.call[j] = "true"
    /\ (kafka.alive = {} /\ \A j \in Jobs : ~Publishing(j)) =>
          \A j \in Jobs : kafka.call[j] = "true" => kafka.produced[j] = 1

\* C34 as stated: the service sends a reply to every message it receives,
\* whatever the message holds, so that its REP socket never stays in the
\* state in which it must send before it can receive.
C34_Original ==
    [][ ev'.op = "request" =>
          /\ service'.reply.status \in {"success", "failed"}
          /\ ~service'.owes_reply ]_vars

\* C35 as stated: no handle in the list of available sockets of the cache
\* pool has sent a request whose reply it has not received, so that the
\* poller that borrows it next can send.
C35_Original ==
    \A i \in 1..Len(pools.cache.available_sockets) :
       pools.cache.available_sockets[i] \notin pools.cache.awaiting

\* The dispatcher has received a record for job j whose source it knows.
KnownRecord(j) ==
    que.record[j] # NoRecord /\ Lookup(cfg.registry, que.record[j].source_id)
\* C36 as stated: every record with a known source that the dispatcher
\* receives is submitted to the thread pool, and its job has ended when the
\* thread of the dispatcher ends, also when join() shuts the pool down
\* while the loop is still receiving.
C36_Original ==
    \A j \in Jobs :
       KnownRecord(j) =>
          /\ que.job[j] \in {"queued", "mining", "offering", "done"}
          /\ que.thread = "exited" => que.job[j] = "done"

\* C37 as stated: a failed cycle never shortens the interval of a poller:
\* when a cycle of p ends in the handler of TimeoutError or in the handler
\* of Exception, refresh_time is at least what it was before that cycle,
\* whether that value came from a declared ttl or from earlier back-off.
C37_Original ==
    [][ \A p \in Sources :
          ( /\ ev'.src = p
            /\ ev'.error \/ ev'.timeout # ""
            /\ poller[p].pc # "sleep" /\ poller'[p].pc = "sleep" ) =>
             poller'[p].refresh_time >= poller[p].refresh_time ]_vars

\* C38 as stated: with the configured values (sleep of at least 10 s,
\* refresh_time 10 s at the start, min_refresh_interval 15 s of the reader)
\* every cycle that holds both handles and calls get_feed goes on to the
\* HTTP request of fetch_feed: none returns the snapshot of the cycle before
\* because the reader was fetched less than min_refresh_interval ago.
C38_Original ==
    [][ \A p \in Sources :
          ( /\ ev'.op = "cycle" /\ ev'.src = p /\ ev'.timeout = ""
            /\ poller'[p] # poller[p]
            /\ poller'[p].pc \notin {"wait_spider", "wait_cache"}
            /\ reader[p].min_refresh_interval = ReaderMinRefreshInterval ) =>
             /\ poller'[p].pc = "http"
             /\ ~ev'.returned ]_vars

(***************************************************************************)
(* The pool model under the scheduling of the event loop: a task whose     *)
(* one-second sleep in get_socket_async is over is resumed.                *)
(***************************************************************************)
WaitConfig(cache_size, cache_users) ==
    [PoolConfig(cache_size, cache_users) EXCEPT !.https = {"ok"}]
WaitInit ==
    InitWith({ WaitConfig(PoolMaxSize, PoolMaxUsers - 1),
               WaitConfig(PoolMaxSize - 1, PoolMaxUsers) })
WaitNext ==
    \/ \E p \in cfg.sources : Wake(p)
    \/ \E p \in cfg.sources : Resume(p)
    \/ \E p \in cfg.sources : HttpResponse(p)
    \/ \E p \in cfg.sources : FetchReturn(p)
FairSpec ==
    /\ WaitInit /\ [][WaitNext]_vars
    /\ \A p \in Sources : WF_vars(Resume(p))

Waiting(p) == poller[p].pc \in {"wait_spider", "wait_cache"}
WaitsOn(p) == IF poller[p].pc = "wait_spider" THEN "spider" ELSE "cache"
\* The order of acquisition, the bound on a wait and the permits at rest.
C39_Order ==
    /\ \A p \in Sources :
         /\ poller[p].cache_sock # NoSock => poller[p].spider_sock # NoSock
         /\ poller[p].pc = "wait_cache" =>
               (poller[p].spider_sock # NoSock /\ poller[p].cache_sock = NoSock)
         /\ poller[p].pc = "wait_spider" =>
               (poller[p].spider_sock = NoSock /\ poller[p].cache_sock = NoSock)
         /\ Waiting(p) =>
               /\ poller[p].tries >= 1
               /\ poller[p].tries <= pools[WaitsOn(p)].connection_timeout
    /\ (\A p \in Sources : poller[p].pc \in {"sleep", "cancelled"}) =>
          \A n \in PoolNames : pools[n].semaphore = pools[n].max_concurrent_users
\* A step of a poller that waits for a pool: it waits one more second, or
\* the acquisition raises TimeoutError and the cycle ends, or it has the
\* handle it waited for.
C39_WaitStep(p) ==
    LET n == WaitsOn(p)
        got == IF poller[p].pc = "wait_spider"
               THEN poller'[p].spider_sock ELSE poller'[p].cache_sock
    IN \/ /\ poller'[p].pc = poller[p].pc
          /\ poller'[p].tries = poller[p].tries + 1
          /\ poller[p].tries < pools[n].connection_timeout
          /\ pools[n].semaphore = 0
          /\ got = NoSock
       \/ /\ ev'.timeout = n /\ poller'[p].pc = "sleep"
          /\ got = NoSock
       \/ /\ ev'.timeout # n
          /\ poller[p].tries < pools[n].connection_timeout
          /\ pools[n].semaphore > 0
          /\ \/ got # NoSock
             \/ poller'[p].pc = "sleep" /\ ev'.src = p
\* C39: pollers do not deadlock on the two pools.  A poller takes the
\* spider handle before the cache handle and never waits for the spider
\* pool with a handle in its hand; a wait for a pool lasts at most
\* connection_timeout passes; every poller that waits for a pool leaves the
\* wait, with a handle or with a timeout; and when all pollers sleep (or
\* have ended) all permits of both pools are free.
C39_NoDeadlock ==
    /\ []C39_Order
    /\ [][ \A p \in Sources :
             (Waiting(p) /\ poller'[p] # poller[p]) => C39_WaitStep(p) ]_vars
    /\ \A p \in Sources : Waiting(p) ~> ~Waiting(p)
\* All pollers are at rest with every permit free, after one of them
\* fetched its feed and another gave up on a pool, where the cache pool has
\* more permits than room for handles.
C39_Witness ==
    /\ \A p \in Sources : poller[p].pc \in {"sleep", "cancelled"}
    /\ \E p, q \in Sources :
         /\ poller[p].pc = "sleep" /\ poller[p].cycles = 1
         /\ poller[p].refresh_time = TimeoutBackoff(FeedMinRefreshInterval)
         /\ reader[p].feed_last_refresh_on = None
         /\ poller[q].pc = "sleep" /\ reader[q].feed_last_refresh_on # None
    /\ pools.cache.max_pool_size < pools.cache.max_concurrent_users
    /\ \A n \in PoolNames : pools[n].semaphore = pools[n].max_concurrent_users

\* C40 as stated: after any sequence of get_socket_async, return_socket and
\* close_all on a pool, in_use_count is the number of handles borrowed from
\* the pool (so it is never negative) and is max_concurrent_users less the
\* free permits of the semaphore.
C40_Original ==
    \A n \in PoolNames :
       /\ pools[n].in_use_count = Cardinality(Borrowers(n))
       /\ pools[n].in_use_count >= 0
       /\ pools[n].in_use_count
            = pools[n].max_concurrent_users - pools[n].semaphore

=============================================================================
